---- MODULE Spec2Model ----
(***************************************************************************)
(* Model of the backend metrics collector, captureBackendMetrics, of       *)
(* src/unnamed/part_000: the Metrics State its event sources write into,   *)
(* the snapshot formatter and the summarizer behind getMetrics.            *)
(*                                                                         *)
(* Numbers.  A JavaScript number that need not be an integer is a pair     *)
(* <<n, d>> standing for n / d (d > 0, n >= 0); arithmetic on the pairs is *)
(* exact.  Stored durations, byte counts and counters are integers.        *)
(* An optional value (a value that may be `undefined`) is a sequence of    *)
(* length 0 or 1.                                                          *)
(*                                                                         *)
(* Objects.  The live Metrics State and every object getMetrics returns    *)
(* live in `heap`, keyed by address, so that two references to one object  *)
(* are distinguishable from two equal objects.                             *)
(***************************************************************************)
EXTENDS Integers, Sequences, FiniteSets, TLC

\* ------------------------------------------------------------------ bounds
MaxEvents == 3        \* event-source turns in one run of Spec
MaxCallerEvents == 2  \* event-source turns in one run of SpecCaller
MaxRequests == 2      \* requests entering the timing hook in one run of SpecHttp
MaxTime == 1          \* clock readings 0..MaxTime
MaxHeld == 1          \* results the caller of SpecCaller holds at one time
MaxIndexKey == 9      \* largest array-index key probed by IsArrayIndex
MaxHostListeners == 1 \* fault listeners of each kind the host application installs itself
MaxWindow == 2        \* delays the event-loop monitor observes between two rollups
MaxRollups == 2       \* rollups of the event-loop histogram in SpecLoop
MaxOffset == 4        \* distance of a formatter input from a unit boundary
MaxBrowserEvents == 2 \* browser events and timer firings in SpecFrontend

\* ----------------------------------------------------------------- numbers
Num(n) == <<n, 1>>

\* A threshold test that also holds at the threshold.
AtMost(x, k) == x[1] <= k * x[2]

Lt(x, k) == x[1] < k * x[2]

\* A threshold test that also fires at the threshold.
GtOrEqual(x, k) == x[1] >= k * x[2]

\* A threshold test on the whole part of x.
GtTruncated(x, k) == x[1] \div x[2] > k

Gt(x, k) == x[1] > k * x[2]

GtQ(x, y) == x[1] * y[2] > y[1] * x[2]

DivBy(x, k) == <<x[1], x[2] * k>>

Pow10(k) == IF k = 0 THEN 1 ELSE IF k = 1 THEN 10 ELSE 100

Pad(v, digits) ==
  IF digits = 2 /\ v < 10 THEN "0" \o ToString(v) ELSE ToString(v)

\* Number.prototype.toFixed(digits) for x >= 0, digits in 0..2: the nearest
\* multiple of 10^-digits, the larger one on a tie.  x is the exact value of
\* the number: the model hands toFixed values that binary floating point
\* holds exactly or that lie off a tie.
toFixedUnits(x, digits) ==
  LET whole  == x[1] \div x[2]
      scaled == (x[1] % x[2]) * Pow10(digits)
      below  == scaled % x[2]
  IN  whole * Pow10(digits) + scaled \div x[2]
        + (IF below >= x[2] - below THEN 1 ELSE 0)

toFixed(x, digits) ==
  LET u == toFixedUnits(x, digits)
  IN  IF digits = 0 THEN ToString(u)
      ELSE ToString(u \div Pow10(digits)) \o "." \o Pad(u % Pow10(digits), digits)

formatMs(ms) ==
  IF Lt(ms, 1000) THEN toFixed(ms, 2) \o " ms"
  ELSE toFixed(DivBy(ms, 1000), 2) \o " s"

formatBytes(bytes) ==
  IF bytes < 1024 THEN ToString(bytes) \o " B"
  ELSE IF bytes < 1024 * 1024 THEN toFixed(<<bytes, 1024>>, 2) \o " KB"
  ELSE IF bytes < 1024 * 1024 * 1024
       THEN toFixed(<<bytes, 1024 * 1024>>, 2) \o " MB"
  ELSE toFixed(<<bytes, 1024 * 1024 * 1024>>, 2) \o " GB"

\* NaN, the mean of a histogram that has recorded nothing.  Every delay is at
\* least 0, so the model writes NaN as a number no delay can be.
NaN == -1

RECURSIVE SumSeq(_)
SumSeq(s) == IF s = <<>> THEN 0 ELSE Head(s) + SumSeq(Tail(s))

RECURSIVE MaxSeq(_)
MaxSeq(s) ==
  IF Len(s) = 1 THEN s[1]
  ELSE LET m == MaxSeq(Tail(s)) IN IF s[1] > m THEN s[1] ELSE m

RECURSIVE MinSeq(_)
MinSeq(s) ==
  IF Len(s) = 1 THEN s[1]
  ELSE LET m == MinSeq(Tail(s)) IN IF s[1] < m THEN s[1] ELSE m

\* An average over a recent window: the last two elements.
avgRecent(arr) ==
  IF Len(arr) # 0
  THEN LET window == SubSeq(arr, IF Len(arr) > 1 THEN Len(arr) - 1 ELSE 1, Len(arr))
       IN  <<SumSeq(window), Len(window)>>
  ELSE Num(0)

\* const avg = (arr) => arr.length ? arr.reduce(...) / arr.length : 0
avg(arr) == IF Len(arr) # 0 THEN <<SumSeq(arr), Len(arr)>> ELSE Num(0)

\* The element before the most recent one.
Penultimate(s) == IF Len(s) > 1 THEN s[Len(s) - 1] ELSE s[1]

\* The oldest element instead of the most recent one.
First(s) == s[1]

Last(s) == s[Len(s)]

\* ------------------------------------------------- plain JavaScript objects
\* customEvents is a plain object ({}): a sequence of own properties
\* [key, val] in the order Object.keys reports them, with Object.prototype
\* behind it.  A property value is [t |-> "number", v |-> n] or
\* [t |-> "string", v |-> s].
NumberVal(n) == [t |-> "number", v |-> n]

StringVal(s) == [t |-> "string", v |-> s]

\* Names a plain object inherits from Object.prototype (those the model's
\* tags can hit) and the text String() gives for the inherited function.
ObjectPrototypeNames == {"toString", "constructor"}

FunctionSource(k) ==
  IF k = "constructor" THEN "function Object() { [native code] }"
  ELSE "function " \o k \o "() { [native code] }"

\* An array-index key ("0", "7", ...): the canonical decimal text of an integer.
IsArrayIndex(k) == \E n \in 0..MaxIndexKey : ToString(n) = k

IndexOfKey(k) == CHOOSE n \in 0..MaxIndexKey : ToString(n) = k

OwnIndex(obj, k) ==
  IF \E i \in 1..Len(obj) : obj[i].key = k
  THEN CHOOSE i \in 1..Len(obj) : obj[i].key = k
  ELSE 0

HasOwn(obj, k) == OwnIndex(obj, k) # 0

ObjectKeys(obj) == [i \in 1..Len(obj) |-> obj[i].key]

\* obj[k] || 0, then + 1: a number counts up, a missing property starts from
\* 0, and an inherited function or a string is truthy and concatenates "1".
IncrementedValue(obj, k) ==
  IF HasOwn(obj, k)
  THEN LET cur == obj[OwnIndex(obj, k)].val
       IN  IF cur.t = "number" THEN NumberVal(cur.v + 1)
           ELSE StringVal(cur.v \o "1")
  ELSE IF k \in ObjectPrototypeNames THEN StringVal(FunctionSource(k) \o "1")
  ELSE NumberVal(1)

\* Where a new own property lands: array-index keys come first, in ascending
\* numeric order; every other key goes to the end (creation order).
InsertPosition(obj, k) ==
  IF IsArrayIndex(k)
  THEN 1 + Cardinality({i \in 1..Len(obj) :
                           /\ IsArrayIndex(obj[i].key)
                           /\ IndexOfKey(obj[i].key) < IndexOfKey(k)})
  ELSE Len(obj) + 1

SetProperty(obj, k, v) ==
  IF HasOwn(obj, k)
  THEN [obj EXCEPT ![OwnIndex(obj, k)].val = v]
  ELSE LET p == InsertPosition(obj, k)
       IN  SubSeq(obj, 1, p - 1) \o <<[key |-> k, val |-> v]>>
             \o SubSeq(obj, p, Len(obj))

\* ------------------------------------------------------------------ inputs
\* Response status codes a finished request may carry.
StatusCodes == {200, 400}

\* One GC performance entry: detail?.kind (missing when the entry carries no
\* detail) and its duration.
GcEntries == {[kind |-> <<>>, duration |-> 0], [kind |-> <<4>>, duration |-> 3]}

\* The entry lists one observer callback may be handed.
GcBatches == {<<[kind |-> <<>>, duration |-> 0]>>,
              <<[kind |-> <<4>>, duration |-> 3], [kind |-> <<>>, duration |-> 0]>>}

\* What the delay histogram reports at a rollup; a percentile the histogram
\* has no value for is missing.
HistogramReadings ==
  {[mean |-> 0, max |-> 0, min |-> 0, p50 |-> <<>>, p99 |-> <<>>],
   [mean |-> 5, max |-> 9, min |-> 1, p50 |-> <<4>>, p99 |-> <<9>>]}

\* What process.memoryUsage(), process.cpuUsage(), the os module and
\* process._getActiveHandles (missing where unsupported) report at one
\* sampler run.
HostReadings ==
  {[memory |-> [rss |-> 2048, heapTotal |-> 1024, heapUsed |-> 512,
                external |-> 0, arrayBuffers |-> 0],
    cpu |-> [user |-> 1000, system |-> 500],
    loadAvg |-> <<<<1, 2>>, <<1, 4>>, <<0, 1>>>>,
    freeMemBytes |-> 1024, totalMemBytes |-> 4096, uptimeSec |-> <<3, 2>>,
    cpuCores |-> 2, handles |-> <<3>>],
   [memory |-> [rss |-> 1536, heapTotal |-> 1024, heapUsed |-> 1000,
                external |-> 1, arrayBuffers |-> 0],
    cpu |-> [user |-> 2000, system |-> 500],
    loadAvg |-> <<<<3, 1>>, <<1, 1>>, <<1, 2>>>>,
    freeMemBytes |-> 512, totalMemBytes |-> 4096, uptimeSec |-> <<5, 1>>,
    cpuCores |-> 2, handles |-> <<>>]}

\* The tag getMetrics is called with: omitted (<<>>), empty, or a name.
EventTags == {<<>>, <<"">>, <<"pageView">>, <<"click">>, <<"7">>, <<"toString">>}

\* if (event): undefined and the empty string are falsy.
Truthy(event) == event # <<>> /\ event[1] # ""

\* ------------------------------------------------------------ Metrics State
InitialMetrics ==
  [httpRequests |-> [totalCount |-> 0, errorCount |-> 0, durationsMs |-> <<>>],
   garbageCollections |-> <<>>,
   eventLoopDelays |-> <<>>,
   processStats |-> <<>>,
   osStats |-> <<>>,
   activeHandles |-> <<>>,
   errorCounts |-> [uncaughtExceptions |-> 0, unhandledRejections |-> 0],
   userMetrics |-> [activeUsers |-> 0, sessionDurationMs |-> <<>>,
                    pageViews |-> 0, customEvents |-> <<>>]]

\* ------------------------------------------------------- request timing hook
\* An error test that leaves out the status 400 itself.
IsErrorStatusAbove(status) == status > 400

IsErrorStatus(status) == status >= 400

\* A callback that returns early on an error status, counting only the error.
RecordFinishErrorOnly(m, duration, status) ==
  IF IsErrorStatus(status)
  THEN [m EXCEPT !.httpRequests.errorCount = @ + 1]
  ELSE [m EXCEPT !.httpRequests.totalCount = @ + 1,
                 !.httpRequests.durationsMs = Append(@, duration)]

\* A finish callback that puts the newest duration first.
RecordFinishFirst(m, duration, status) ==
  [m EXCEPT !.httpRequests =
     [totalCount |-> @.totalCount + 1,
      durationsMs |-> <<duration>> \o @.durationsMs,
      errorCount |-> IF IsErrorStatus(status) THEN @.errorCount + 1
                     ELSE @.errorCount]]

\* The body of the finish callback: count the request, record its duration,
\* count it as an error when its status says so.
RecordFinish(m, duration, status) ==
  [m EXCEPT !.httpRequests =
     [totalCount |-> @.totalCount + 1,
      durationsMs |-> Append(@.durationsMs, duration),
      errorCount |-> IF IsErrorStatus(status) THEN @.errorCount + 1
                     ELSE @.errorCount]]

\* ---------------------------------------------------------------- observers
GcRecord(entry, t) == [type |-> entry.kind, durationMs |-> entry.duration, timestamp |-> t]

\* A GC buffer that keeps the two newest records.
RECURSIVE RecordGcEntriesCapped(_, _, _)
RecordGcEntriesCapped(m, entries, t) ==
  IF entries = <<>> THEN m
  ELSE RecordGcEntriesCapped(
         [m EXCEPT !.garbageCollections =
            LET all == Append(@, [type |-> Head(entries).kind,
                                  durationMs |-> Head(entries).duration,
                                  timestamp |-> t])
            IN  IF Len(all) > 2 THEN Tail(all) ELSE all],
         Tail(entries), t)

RECURSIVE RecordGcEntries(_, _, _)
RecordGcEntries(m, entries, t) ==
  IF entries = <<>> THEN m
  ELSE RecordGcEntries(
         [m EXCEPT !.garbageCollections = Append(@, GcRecord(Head(entries), t))],
         Tail(entries), t)

\* percentiles.get(p) ?? 0
OrZero(opt) == IF opt = <<>> THEN 0 ELSE opt[1]

RecordEventLoopSample(m, h, t) ==
  [m EXCEPT !.eventLoopDelays =
     Append(@, [meanMs |-> h.mean, maxMs |-> h.max, minMs |-> h.min,
                p50Ms |-> OrZero(h.p50), p99Ms |-> OrZero(h.p99),
                timestamp |-> t])]

\* A sampler that takes no handle sample where handles cannot be listed.
collectSkippingHandles(m, r, t) ==
  [m EXCEPT
     !.processStats = Append(@, [memory |-> r.memory, cpu |-> r.cpu, timestamp |-> t]),
     !.osStats = Append(@, [loadAvg |-> r.loadAvg, freeMemBytes |-> r.freeMemBytes,
                            totalMemBytes |-> r.totalMemBytes,
                            uptimeSec |-> r.uptimeSec, cpuCores |-> r.cpuCores,
                            timestamp |-> t]),
     !.activeHandles = IF r.handles # <<>>
                       THEN Append(@, [count |-> r.handles[1], timestamp |-> t])
                       ELSE @]

\* A sampler that starts a new period for the fault counters at each run.
collectAndResetFaults(m, r, t) ==
  [m EXCEPT
     !.processStats = Append(@, [memory |-> r.memory, cpu |-> r.cpu, timestamp |-> t]),
     !.osStats = Append(@, [loadAvg |-> r.loadAvg, freeMemBytes |-> r.freeMemBytes,
                            totalMemBytes |-> r.totalMemBytes,
                            uptimeSec |-> r.uptimeSec, cpuCores |-> r.cpuCores,
                            timestamp |-> t]),
     !.activeHandles = Append(@, [count |-> IF r.handles # <<>> THEN r.handles[1] ELSE 0,
                                  timestamp |-> t]),
     !.errorCounts = [uncaughtExceptions |-> 0, unhandledRejections |-> 0]]

collectProcessAndOsStats(m, r, t) ==
  [m EXCEPT
     !.processStats = Append(@, [memory |-> r.memory, cpu |-> r.cpu, timestamp |-> t]),
     !.osStats = Append(@, [loadAvg |-> r.loadAvg, freeMemBytes |-> r.freeMemBytes,
                            totalMemBytes |-> r.totalMemBytes,
                            uptimeSec |-> r.uptimeSec, cpuCores |-> r.cpuCores,
                            timestamp |-> t]),
     !.activeHandles = Append(@, [count |-> IF r.handles # <<>> THEN r.handles[1] ELSE 0,
                                  timestamp |-> t])]

RecordUncaughtException(m) ==
  [m EXCEPT !.errorCounts.uncaughtExceptions = @ + 1]

\* A rejection handler that counts into the exception counter.
RecordUnhandledRejectionAsException(m) ==
  [m EXCEPT !.errorCounts.uncaughtExceptions = @ + 1]

RecordUnhandledRejection(m) ==
  [m EXCEPT !.errorCounts.unhandledRejections = @ + 1]

\* ------------------------------------------------------------ usage recorder
\* Usage recording that compares the tag with "pageview".
RecordUsageCaseSlip(m, event) ==
  IF Truthy(event)
  THEN IF event[1] = "pageview"
       THEN [m EXCEPT !.userMetrics.pageViews = @ + 1]
       ELSE [m EXCEPT !.userMetrics.customEvents =
               SetProperty(@, event[1], IncrementedValue(@, event[1]))]
  ELSE m

\* Usage recording without the else: every tag is also a custom event.
RecordUsageBoth(m, event) ==
  IF Truthy(event)
  THEN [m EXCEPT !.userMetrics.pageViews =
                    IF event[1] = "pageView" THEN @ + 1 ELSE @,
                 !.userMetrics.customEvents =
                    SetProperty(@, event[1], IncrementedValue(@, event[1]))]
  ELSE m

\* Usage recording that counts every tagged call as a page view.
RecordUsageAnyTag(m, event) ==
  IF Truthy(event)
  THEN IF event[1] = "pageView"
       THEN [m EXCEPT !.userMetrics.pageViews = @ + 1]
       ELSE [m EXCEPT !.userMetrics.pageViews = @ + 1,
                      !.userMetrics.customEvents =
                         SetProperty(@, event[1], IncrementedValue(@, event[1]))]
  ELSE m

\* Usage recording without the outer if: a call with no tag is a page view.
RecordUsageAlways(m, event) ==
  IF Truthy(event) /\ event[1] # "pageView"
  THEN [m EXCEPT !.userMetrics.customEvents =
          SetProperty(@, event[1], IncrementedValue(@, event[1]))]
  ELSE [m EXCEPT !.userMetrics.pageViews = @ + 1]

RecordUsage(m, event) ==
  IF Truthy(event)
  THEN IF event[1] = "pageView"
       THEN [m EXCEPT !.userMetrics.pageViews = @ + 1]
       ELSE [m EXCEPT !.userMetrics.customEvents =
               SetProperty(@, event[1], IncrementedValue(@, event[1]))]
  ELSE m

\* -------------------------------------------------------- snapshot formatter
\* JSON.parse(JSON.stringify(metrics)): a property whose value is undefined
\* is dropped; numbers, strings, arrays and objects come back equal.
JsonGcRecord(g) ==
  IF g.type = <<>> THEN [durationMs |-> g.durationMs, timestamp |-> g.timestamp]
  ELSE [type |-> g.type[1], durationMs |-> g.durationMs, timestamp |-> g.timestamp]

JsonRoundTrip(m) ==
  [m EXCEPT !.garbageCollections = [i \in 1..Len(@) |-> JsonGcRecord(@[i])]]

FormatMemory(memory) == [k \in DOMAIN memory |-> formatBytes(memory[k])]

\* JSON.stringify writes NaN as null, and formatMs(null) raises a TypeError
\* (null has no toFixed): the clone cannot be formatted once a sample's meanMs
\* is NaN.
FormatRaises(m) ==
  \E i \in 1..Len(m.eventLoopDelays) : m.eventLoopDelays[i].meanMs = NaN

\* The presentation transforms getMetrics applies to the clone.
FormatClone(c) ==
  [c EXCEPT
     !.httpRequests.durationsMs = [i \in 1..Len(@) |-> formatMs(Num(@[i]))],
     !.eventLoopDelays =
        [i \in 1..Len(@) |->
           [@[i] EXCEPT !.meanMs = formatMs(Num(@)), !.maxMs = formatMs(Num(@)),
                        !.minMs = formatMs(Num(@)), !.p50Ms = formatMs(Num(@)),
                        !.p99Ms = formatMs(Num(@))]],
     !.processStats =
        [i \in 1..Len(@) |-> [@[i] EXCEPT !.memory = FormatMemory(@)]],
     !.osStats =
        [i \in 1..Len(@) |->
           [@[i] EXCEPT !.loadAvg = [j \in 1..Len(@) |-> toFixed(@[j], 2)],
                        !.freeMemBytes = formatBytes(@),
                        !.totalMemBytes = formatBytes(@),
                        !.uptimeSec = toFixed(@, 0) \o " s"]]]

\* ---------------------------------------------------------------- summarizer
RECURSIVE Join(_, _)
Join(strs, sep) ==
  IF strs = <<>> THEN ""
  ELSE IF Len(strs) = 1 THEN strs[1]
  ELSE strs[1] \o sep \o Join(Tail(strs), sep)

DefaultProc == [memory |-> [rss |-> 0], cpu |-> [user |-> 0, system |-> 0]]

\* A default host with a load of 1 and no cores.
DefaultOsNoCores == [loadAvg |-> <<Num(1)>>, totalMemBytes |-> 1, cpuCores |-> 0,
                     freeMemBytes |-> 0]

DefaultOs == [loadAvg |-> <<Num(0)>>, totalMemBytes |-> 1, cpuCores |-> 1,
              freeMemBytes |-> 0]

userEventsSummary(customEvents) ==
  [i \in 1..Len(customEvents) |->
     [event |-> ObjectKeys(customEvents)[i],
      count |-> customEvents[OwnIndex(customEvents, ObjectKeys(customEvents)[i])].val]]

summarizeMetrics(m) ==
  LET totalReq == m.httpRequests.totalCount
      errCount == m.httpRequests.errorCount
      avgReqMs == avg(m.httpRequests.durationsMs)
      errRate  == IF totalReq # 0 THEN <<errCount * 100, totalReq>> ELSE Num(0)
      httpStatus == IF Gt(errRate, 5) \/ Gt(avgReqMs, 500)
                    THEN "Needs attention" ELSE "OK"
      gcDurations == [i \in 1..Len(m.garbageCollections) |->
                        m.garbageCollections[i].durationMs]
      avgGcMs == avg(gcDurations)
      maxGcMs == IF Len(gcDurations) # 0 THEN MaxSeq(gcDurations) ELSE 0
      gcStatus == IF Gt(avgGcMs, 50) THEN "GC is slow" ELSE "GC OK"
      hasLoop == Len(m.eventLoopDelays) # 0
      loopMean == IF hasLoop /\ Last(m.eventLoopDelays).meanMs # NaN
                  THEN Last(m.eventLoopDelays).meanMs ELSE 0
      loopMax == IF hasLoop THEN Last(m.eventLoopDelays).maxMs ELSE 0
      loopStatus == IF loopMean > 50 THEN "Event-loop lag" ELSE "Loop OK"
      lastProc == IF Len(m.processStats) # 0 THEN Last(m.processStats)
                  ELSE DefaultProc
      lastOs == IF Len(m.osStats) # 0 THEN Last(m.osStats) ELSE DefaultOs
      memUsage == lastProc.memory.rss
      memPct == IF lastOs.totalMemBytes # 0
                THEN <<memUsage * 100, lastOs.totalMemBytes>> ELSE Num(0)
      cpuPct == IF lastOs.cpuCores # 0
                THEN <<(lastProc.cpu.user + lastProc.cpu.system) * 100,
                       1000000 * lastOs.cpuCores>>
                ELSE Num(0)
      resourceStatus == IF Gt(memPct, 80) \/ Gt(cpuPct, 80)
                        THEN "High resource use" ELSE "Resource use OK"
      osStatus == IF GtQ(lastOs.loadAvg[1], Num(lastOs.cpuCores))
                  THEN "Load exceeds cores" ELSE "OS load OK"
      lastHandles == IF Len(m.activeHandles) # 0 THEN Last(m.activeHandles).count
                     ELSE 0
      handlesStatus == IF lastHandles > 1000 THEN "Too many handles"
                       ELSE "Handles OK"
      errorSum == m.errorCounts.uncaughtExceptions
                    + m.errorCounts.unhandledRejections
      errorStatus == IF errorSum > 0 THEN "Runtime errors detected"
                     ELSE "No runtime errors"
      totalPageViews == m.userMetrics.pageViews
      userMetricsStatus == IF totalPageViews > 0 THEN "User activity detected"
                           ELSE "No user activity"
  IN  [http |-> [total |-> totalReq, errors |-> errCount,
                 errorRate |-> toFixed(errRate, 1) \o "%",
                 avgDuration |-> formatMs(avgReqMs), status |-> httpStatus],
       gc |-> [avgPause |-> formatMs(avgGcMs), maxPause |-> formatMs(Num(maxGcMs)),
               status |-> gcStatus],
       eventLoop |-> [meanDelay |-> formatMs(Num(loopMean)),
                      maxDelay |-> formatMs(Num(loopMax)), status |-> loopStatus],
       process |-> [memoryUsage |-> formatBytes(memUsage),
                    memoryPct |-> toFixed(memPct, 1) \o "%",
                    cpuPct |-> toFixed(cpuPct, 1) \o "%",
                    status |-> resourceStatus],
       os |-> [loadAvg |-> Join([j \in 1..Len(lastOs.loadAvg) |->
                                   toFixed(lastOs.loadAvg[j], 2)], ", "),
               freeMem |-> formatBytes(lastOs.freeMemBytes), status |-> osStatus],
       handles |-> [current |-> lastHandles, status |-> handlesStatus],
       errors |-> [uncaughtExceptions |-> m.errorCounts.uncaughtExceptions,
                   unhandledRejections |-> m.errorCounts.unhandledRejections,
                   status |-> errorStatus],
       userMetrics |-> [activeUsers |-> m.userMetrics.activeUsers,
                        pageViews |-> totalPageViews,
                        customEvents |-> userEventsSummary(m.userMetrics.customEvents),
                        status |-> userMetricsStatus]]


\* -------------------------------------------------------------------- state
VARIABLES
  now,       \* the clock (performance.now() and Date.now())
  heap,      \* address -> object; heap[LiveAddr] is the live Metrics State
  inflight,  \* requests in flight: [id, start], start held by the closure
  nextId,    \* identity of the next request to arrive
  finished,  \* log of finish events: [id, start, finish, status]
  tagLog,    \* log of the truthy tags getMetrics was called with
  results,   \* results the caller holds, oldest first: [metrics, summary] addresses
  streak,    \* getMetrics results kept in a row with no other turn between (0, 1, 2);
             \* -1 when the last getMetrics call raised
  histogram, \* recorded: the delays the event-loop histogram holds;
             \* sinceRollup: the delays observed since the rollup last ran
  frontend,  \* the browser-side collector of frontendMetrics.ts, where one runs
  rendered   \* a value handed to a function studied on its own and what it gave

vars == <<now, heap, inflight, nextId, finished, tagLog, results, streak,
          histogram, frontend, rendered>>

\* const metrics: BackendMetrics = {...}: the one live state object.
LiveAddr == 0

metrics == heap[LiveAddr]

\* The address of a newly created object: one that no reference in use holds.
NewObject(h) == CHOOSE a \in 1..(Cardinality(DOMAIN h) + 1) : a \notin DOMAIN h

Store(h, a, obj) == [b \in DOMAIN h \cup {a} |-> IF b = a THEN obj ELSE h[b]]

\* monitorEventLoopDelay({ resolution: 10 }) before any delay is recorded.
EmptyHistogram == [recorded |-> <<>>, sinceRollup |-> <<>>]

\* No formatter under study: `rendered` outside SpecFormat.
NoRendering == [fn |-> "none"]

\* No browser-side collector: the state of `frontend` in a server process.
NoFrontend == [attached |-> FALSE]

\* Turns the event sources have taken so far: request arrivals, finishes and
\* aborts, GC entries, timer firings, faults and tagged getMetrics calls.
Events ==
  2 * (nextId - 1) - Cardinality(inflight)
    + Len(metrics.garbageCollections) + Len(metrics.eventLoopDelays)
    + (Len(metrics.processStats) - 1)
    + metrics.errorCounts.uncaughtExceptions
    + metrics.errorCounts.unhandledRejections
    + Len(tagLog)

Init ==
  /\ now = 0
  /\ \E r \in HostReadings :
       heap = [a \in {LiveAddr} |-> collectProcessAndOsStats(InitialMetrics, r, 0)]
  /\ inflight = {}
  /\ nextId = 1
  /\ finished = <<>>
  /\ tagLog = <<>>
  /\ results = <<>>
  /\ streak = 0
  /\ histogram = EmptyHistogram
  /\ frontend = NoFrontend
  /\ rendered = NoRendering

\* Time passes between turns of the event loop.
Tick ==
  /\ now < MaxTime
  /\ now' = now + 1
  /\ UNCHANGED <<heap, inflight, nextId, finished, tagLog, results, streak,
                 histogram, frontend, rendered>>

\* app.use middleware: const start = performance.now(); res.on('finish', ...)
RequestArrive ==
  /\ inflight' = inflight \cup {[id |-> nextId, start |-> now]}
  /\ nextId' = nextId + 1
  /\ streak' = 0
  /\ UNCHANGED <<now, heap, finished, tagLog, results, histogram, frontend, rendered>>

\* The start time a timer shared by all requests would hold: that of the
\* request that arrived last.
FinishDurationShared(r) ==
  LET latest == nextId - 1
      starts == {q.start : q \in {x \in inflight : x.id = latest}}
                  \cup {finished[i].start : i \in {j \in 1..Len(finished) :
                                                     finished[j].id = latest}}
  IN  now - (CHOOSE t \in starts : TRUE)

\* const duration = performance.now() - start
FinishDuration(r) == now - r.start

RequestFinish(r, status) ==
  /\ r \in inflight
  /\ heap' = [heap EXCEPT ![LiveAddr] = RecordFinish(@, FinishDuration(r), status)]
  /\ inflight' = inflight \ {r}
  /\ finished' = Append(finished, [id |-> r.id, start |-> r.start,
                                   finish |-> now, status |-> status])
  /\ streak' = 0
  /\ UNCHANGED <<now, nextId, tagLog, results, histogram, frontend, rendered>>

\* A hook that also records a request when its connection closes.
RequestAbortRecorded(r) ==
  /\ r \in inflight
  /\ heap' = [heap EXCEPT ![LiveAddr] = RecordFinish(@, now - r.start, 200)]
  /\ inflight' = inflight \ {r}
  /\ streak' = 0
  /\ UNCHANGED <<now, nextId, finished, tagLog, results, histogram, frontend, rendered>>

\* The connection closes without the response emitting finish.
RequestAbort(r) ==
  /\ r \in inflight
  /\ inflight' = inflight \ {r}
  /\ streak' = 0
  /\ UNCHANGED <<now, heap, nextId, finished, tagLog, results, histogram, frontend, rendered>>

GcCallback(entries) ==
  /\ heap' = [heap EXCEPT ![LiveAddr] = RecordGcEntries(@, entries, now)]
  /\ streak' = 0
  /\ UNCHANGED <<now, inflight, nextId, finished, tagLog, results, histogram, frontend, rendered>>

\* A rollup that leaves the recorded delays in the histogram.
KeepHistogram(recorded) == recorded

\* eventLoopHistogram.reset()
ResetHistogram(recorded) == <<>>

\* The rollup timer; h is what the histogram's getters report.
EventLoopTimer(h) ==
  /\ heap' = [heap EXCEPT ![LiveAddr] = RecordEventLoopSample(@, h, now)]
  /\ histogram' = [recorded |-> ResetHistogram(histogram.recorded),
                   sinceRollup |-> <<>>]
  /\ streak' = 0
  /\ UNCHANGED <<now, inflight, nextId, finished, tagLog, results, frontend, rendered>>

SamplerTimer(r) ==
  /\ heap' = [heap EXCEPT ![LiveAddr] = collectProcessAndOsStats(@, r, now)]
  /\ streak' = 0
  /\ UNCHANGED <<now, inflight, nextId, finished, tagLog, results, histogram, frontend, rendered>>

UncaughtException ==
  /\ heap' = [heap EXCEPT ![LiveAddr] = RecordUncaughtException(@)]
  /\ streak' = 0
  /\ UNCHANGED <<now, inflight, nextId, finished, tagLog, results, histogram, frontend, rendered>>

UnhandledRejection ==
  /\ heap' = [heap EXCEPT ![LiveAddr] = RecordUnhandledRejection(@)]
  /\ streak' = 0
  /\ UNCHANGED <<now, inflight, nextId, finished, tagLog, results, histogram, frontend, rendered>>

\* A summary computed before the usage counter is updated.
SummarySourceBefore(before, after) == before

\* The state summarizeMetrics() reads when getMetrics calls it: the live
\* state as it is after the usage counter was updated.
SummarySource(before, after) == after

\* One clone object kept between calls and overwritten by each.
CloneTargetCached(h) ==
  IF results # <<>> THEN results[1].metrics ELSE NewObject(h)

\* const clone = JSON.parse(JSON.stringify(metrics)): the clone is a new object.
CloneTarget(h) == NewObject(h)

\* The objects the results in `held` refer to.
Held(held) == {held[i].metrics : i \in 1..Len(held)}
                \cup {held[i].summary : i \in 1..Len(held)}

\* getMetrics(event): update the usage counter, clone and format the state,
\* summarize it, and return {metrics, summary} as two new objects.  The caller
\* keeps the result or ignores it; keeping one while it holds cap results, it
\* lets go of its oldest.  Where formatting raises, the usage update stands
\* and the caller receives no result.
GetMetrics(event, keep, cap) ==
  /\ LET h1 == [heap EXCEPT ![LiveAddr] = RecordUsage(@, event)]
         cloneAddr == CloneTarget(h1)
         h2 == Store(h1, cloneAddr, FormatClone(JsonRoundTrip(h1[LiveAddr])))
         summaryAddr == NewObject(h2)
         h3 == Store(h2, summaryAddr,
                     summarizeMetrics(SummarySource(metrics, h2[LiveAddr])))
         kept == IF keep /\ Len(results) >= cap THEN Tail(results) ELSE results
         held == IF keep
                 THEN Append(kept, [metrics |-> cloneAddr, summary |-> summaryAddr])
                 ELSE results
     IN  IF FormatRaises(h1[LiveAddr])
         THEN /\ heap' = h1
              /\ results' = results
              /\ streak' = -1
         ELSE /\ heap' = [a \in {LiveAddr} \cup Held(held) |-> h3[a]]
              /\ results' = held
              /\ streak' = IF keep THEN (IF streak >= 1 THEN 2 ELSE 1)
                           ELSE IF Truthy(event) THEN 0 ELSE streak
  /\ tagLog' = IF Truthy(event) THEN Append(tagLog, event[1]) ELSE tagLog
  /\ UNCHANGED <<now, inflight, nextId, finished, histogram, frontend, rendered>>

\* What a caller may do with a result it holds: overwrite parts of its
\* metrics and of its summary.
Overwritten(obj, isSummary) ==
  IF isSummary
  THEN [obj EXCEPT !.http.total = -1, !.userMetrics.customEvents = <<>>]
  ELSE [obj EXCEPT !.httpRequests.totalCount = -1, !.userMetrics.pageViews = -1]

CallerModifies(i) ==
  /\ i \in 1..Len(results)
  /\ heap[results[i].summary].http.total # -1
  /\ heap' = [heap EXCEPT
                ![results[i].metrics] = Overwritten(@, FALSE),
                ![results[i].summary] = Overwritten(@, TRUE)]
  /\ streak' = 0
  /\ UNCHANGED <<now, inflight, nextId, finished, tagLog, results, histogram, frontend, rendered>>

\* One turn of an event source, while fewer than n turns have been taken; the
\* caller holds at most cap results at a time and makes the getMetrics calls
\* in `calls`, each <<event, keep>>.
EventTurn(n, cap, calls) ==
  \/ Events < n /\ RequestArrive
  \/ \E r \in inflight, status \in StatusCodes : Events < n /\ RequestFinish(r, status)
  \/ \E r \in inflight : Events < n /\ RequestAbort(r)
  \/ \E entries \in GcBatches : Events + Len(entries) <= n /\ GcCallback(entries)
  \/ \E h \in HistogramReadings : Events < n /\ EventLoopTimer(h)
  \/ \E r \in HostReadings : Events < n /\ SamplerTimer(r)
  \/ Events < n /\ UncaughtException
  \/ Events < n /\ UnhandledRejection
  \/ \E call \in calls :
       /\ Truthy(call[1]) => Events < n
       /\ GetMetrics(call[1], call[2], cap)

\* Every event source, with a caller that keeps one result at a time.  The
\* clock stands still here and in SpecCaller; SpecHttp moves it.
Next ==
  \/ EventTurn(MaxEvents, 1, EventTags \X {TRUE})

Spec == Init /\ [][Next]_vars

\* Every event source, with a caller that reads snapshots with untagged calls,
\* keeps several of them and may overwrite what it holds, and records usage
\* with tagged calls whose result it ignores.
CallerCalls ==
  {<<<<>>, TRUE>>, <<<<"pageView">>, FALSE>>, <<<<"click">>, FALSE>>}

NextCaller ==
  \/ EventTurn(MaxCallerEvents, MaxHeld, CallerCalls)
  \/ \E i \in 1..MaxHeld : CallerModifies(i)

SpecCaller == Init /\ [][NextCaller]_vars

\* The request timing hook alone: requests overlap and finish in any order.
NextHttp ==
  \/ Tick
  \/ nextId <= MaxRequests /\ RequestArrive
  \/ \E r \in inflight, status \in StatusCodes : RequestFinish(r, status)
  \/ \E r \in inflight : RequestAbort(r)
  \/ GetMetrics(<<>>, TRUE, 1)

SpecHttp == Init /\ [][NextHttp]_vars

\* --------------------------------------------------------- event-loop delay
\* The delays the monitor may observe.
Delays == {3, 9}

Range(s) == {s[i] : i \in 1..Len(s)}

\* histogram.min of a histogram that has recorded nothing is
\* 9223372036854776000; the model writes the largest number it holds.
EmptyMin == 2147483647

\* The value at percentile p: the least recorded value that p percent of the
\* recorded values do not exceed.
PercentileOf(recorded, p) ==
  LET atOrBelow(v) == Cardinality({i \in 1..Len(recorded) : recorded[i] <= v})
  IN  CHOOSE v \in Range(recorded) :
        /\ atOrBelow(v) * 100 >= p * Len(recorded)
        /\ \A u \in Range(recorded) :
             atOrBelow(u) * 100 >= p * Len(recorded) => v <= u

\* What percentiles.get(p) may give: the map holds the percentiles the
\* histogram's iteration stops at, so p has a value or has none; it has none
\* where nothing is recorded.
PercentileReadings(recorded, p) ==
  IF recorded = <<>> THEN {<<>>} ELSE {<<>>, <<PercentileOf(recorded, p)>>}

\* const { mean, max, min, percentiles } = eventLoopHistogram, the mean to
\* whole units.
HistogramReport(recorded, p50, p99) ==
  IF recorded = <<>>
  THEN [mean |-> NaN, max |-> 0, min |-> EmptyMin, p50 |-> p50, p99 |-> p99]
  ELSE [mean |-> SumSeq(recorded) \div Len(recorded), max |-> MaxSeq(recorded),
        min |-> MinSeq(recorded), p50 |-> p50, p99 |-> p99]

\* The monitor's own timer observes one delay and records it.
LoopDelay(d) ==
  /\ Len(histogram.sinceRollup) < MaxWindow
  /\ histogram' = [recorded |-> Append(histogram.recorded, d),
                   sinceRollup |-> Append(histogram.sinceRollup, d)]
  /\ streak' = 0
  /\ UNCHANGED <<now, heap, inflight, nextId, finished, tagLog, results, frontend, rendered>>

\* The rollup timer reading the histogram the monitor fills.
Rollup ==
  \E p50 \in PercentileReadings(histogram.recorded, 50),
     p99 \in PercentileReadings(histogram.recorded, 99) :
    EventLoopTimer(HistogramReport(histogram.recorded, p50, p99))

NextLoop ==
  \/ \E d \in Delays : LoopDelay(d)
  \/ Len(metrics.eventLoopDelays) < MaxRollups /\ Rollup
  \/ GetMetrics(<<>>, FALSE, 1)

SpecLoop == Init /\ [][NextLoop]_vars

\* --------------------------------------------------------------- formatters
\* formatBytes and formatMs on their own: a value near a unit boundary is
\* handed to one of them, which renders it.
Around(c) == {n \in (c - MaxOffset)..(c + MaxOffset) : n >= 0}

ByteCounts ==
  Around(0) \cup Around(1024) \cup Around(1024 * 1024)
    \cup Around(1024 * 1024 * 1024)

\* Whole numbers of milliseconds.  One ending in 5 is, in seconds, halfway
\* between two hundredths, where the binary value of the quotient decides the
\* rounding; those are left out.
MsWhole == {n \in Around(0) \cup Around(1000) : n % 10 # 5}

\* Durations: whole numbers of milliseconds, and those plus 0.4 ms.
MsValues == {Num(n) : n \in MsWhole} \cup {<<5 * n + 2, 5>> : n \in MsWhole}

InitFormat ==
  /\ now = 0
  /\ heap = [a \in {LiveAddr} |-> InitialMetrics]
  /\ inflight = {}
  /\ nextId = 1
  /\ finished = <<>>
  /\ tagLog = <<>>
  /\ results = <<>>
  /\ streak = 0
  /\ histogram = EmptyHistogram
  /\ frontend = NoFrontend
  /\ \/ \E b \in ByteCounts :
          rendered = [fn |-> "formatBytes", input |-> b, text |-> <<>>]
     \/ \E ms \in MsValues :
          rendered = [fn |-> "formatMs", input |-> ms, text |-> <<>>]

RenderBytes ==
  /\ rendered.fn = "formatBytes"
  /\ rendered.text = <<>>
  /\ rendered' = [rendered EXCEPT !.text = <<formatBytes(rendered.input)>>]
  /\ UNCHANGED <<now, heap, inflight, nextId, finished, tagLog, results, streak,
                 histogram, frontend>>

RenderMs ==
  /\ rendered.fn = "formatMs"
  /\ rendered.text = <<>>
  /\ rendered' = [rendered EXCEPT !.text = <<formatMs(rendered.input)>>]
  /\ UNCHANGED <<now, heap, inflight, nextId, finished, tagLog, results, streak,
                 histogram, frontend>>

NextFormat ==
  \/ RenderBytes
  \/ RenderMs

SpecFormat == InitFormat /\ [][NextFormat]_vars

\* ------------------------------------------------------- frontend collector
\* captureFrontendMetrics of src/core/frontendMetrics.ts, in a browser page.
\* `frontend` holds the collector (metrics, batchCount, batchSize), what it has
\* registered with the browser (observing, listening, timers), what the
\* browser has done (painted, loaded, shifts, turns) and what getMetrics or
\* flush returned last.
BufferCap == 500

InitialFrontendMetrics ==
  [apiCalls |-> <<>>, loadedResources |-> <<>>, slowTasks |-> <<>>,
   javascriptErrors |-> <<>>,
   coreWebVitals |-> [largestContentfulPaint |-> <<>>, firstInputDelay |-> <<>>,
                      firstContentfulPaint |-> <<>>, timeToFirstByte |-> <<>>],
   pageLoadTiming |-> <<>>]

\* batchSize: Infinity by default, or a number the caller gives.
BatchSizes == {<<>>, <<1>>, <<2>>}

\* What the browser may report.
LcpEntries == {[renderTime |-> 0, loadTime |-> 5, startTime |-> 3],
               [renderTime |-> 7, loadTime |-> 5, startTime |-> 3]}

FirstInputEntries == {[processingStart |-> 4, startTime |-> 1]}

LongTaskEntries == {[name |-> "self", startTime |-> 2, duration |-> 60]}

LayoutShiftEntries == {[value |-> 1, hadRecentInput |-> FALSE],
                       [value |-> 2, hadRecentInput |-> TRUE]}

PaintEntry == [name |-> "first-contentful-paint", startTime |-> 2]

NavigationEntries ==
  {<<>>, <<[requestStart |-> 1, responseStart |-> 3, startTime |-> 0,
           domContentLoadedEventEnd |-> 8, loadEventEnd |-> 9]>>}

ResourceLists ==
  {<<>>, <<[name |-> "a.js", entryType |-> "resource", startTime |-> 1,
           duration |-> 4]>>}

ErrorEvents == {[message |-> "boom", filename |-> "a.js", lineno |-> 1, colno |-> 2]}

\* The reason of a rejected promise: an Error, or undefined.
RejectionReasons == {<<"bad">>, <<>>}

\* A counter that returns to 0 only once it has passed batchSize.
markEventLate(f) ==
  [f EXCEPT !.batchCount =
     IF f.batchSize # <<>> /\ @ + 1 > f.batchSize[1] THEN 0 ELSE @ + 1]

markEvent(f) ==
  [f EXCEPT !.batchCount =
     IF f.batchSize # <<>> /\ @ + 1 >= f.batchSize[1] THEN 0 ELSE @ + 1]

clearBatch(f) == [f EXCEPT !.batchCount = 0]

recordVital(f, name, value, t) ==
  markEvent([f EXCEPT !.metrics.coreWebVitals[name] =
                        <<[value |-> value, timestamp |-> t]>>])

\* A push that, once the sequence is full, gives up the newest entry.
PushKeepingOldest(seq, e) ==
  LET all == Append(seq, e)
  IN  IF Len(all) > BufferCap THEN SubSeq(all, 1, BufferCap) ELSE all

\* push, then shift once the sequence holds more than 500 entries.
PushCapped(seq, e) ==
  LET all == Append(seq, e) IN IF Len(all) > BufferCap THEN Tail(all) ELSE all

\* The handler of the largest-contentful-paint observer.
OnLcp(f, e, t) ==
  LET lcpValue == IF e.renderTime # 0 THEN e.renderTime
                  ELSE IF e.loadTime # 0 THEN e.loadTime ELSE e.startTime
  IN  IF f.metrics.coreWebVitals.largestContentfulPaint = <<>>
      THEN recordVital(f, "largestContentfulPaint", lcpValue, t) ELSE f

\* The handler of the first-input observer.
OnFirstInput(f, e, t) ==
  IF f.metrics.coreWebVitals.firstInputDelay = <<>>
  THEN recordVital(f, "firstInputDelay", e.processingStart - e.startTime, t)
  ELSE f

\* The handler of the longtask observer.
OnLongTask(f, e) ==
  markEvent([f EXCEPT !.metrics.slowTasks =
               PushCapped(@, [name |-> e.name, startTime |-> e.startTime,
                              duration |-> e.duration])])

\* forEach over the resource entries, in their order: the callback has run
\* for the first half of them before it runs for the second half.
RECURSIVE PushResources(_, _)
PushResources(f, resources) ==
  IF resources = <<>> THEN f
  ELSE IF Len(resources) = 1
  THEN markEvent([f EXCEPT !.metrics.loadedResources =
                    PushCapped(@, Head(resources))])
  ELSE LET half == Len(resources) \div 2
           g == PushResources(f, SubSeq(resources, 1, half))
       IN  IF g.attached
           THEN PushResources(g, SubSeq(resources, half + 1, Len(resources)))
           ELSE g

\* The window load listener: paint, navigation and resource timings.
OnLoad(f, nav, resources, t) ==
  LET f1 == IF f.painted
            THEN recordVital(f, "firstContentfulPaint", PaintEntry.startTime, t)
            ELSE f
      f2 == IF nav # <<>>
            THEN markEvent(
                   [recordVital(f1, "timeToFirstByte",
                                nav[1].responseStart - nav[1].requestStart, t)
                      EXCEPT !.metrics.pageLoadTiming = nav])
            ELSE f1
  IN  PushResources(f2, resources)

\* handleError
OnError(f, e, t) ==
  markEvent([f EXCEPT !.metrics.javascriptErrors =
               Append(@, [message |-> e.message, source |-> e.filename,
                          lineno |-> e.lineno, colno |-> e.colno,
                          timestamp |-> t])])

\* The unhandledrejection listener, an arrow function of its own.
OnRejection(f, reason, t) ==
  markEvent([f EXCEPT !.metrics.javascriptErrors =
               Append(@, [message |-> IF reason # <<>> THEN reason[1]
                                      ELSE "undefined",
                          timestamp |-> t])])

\* The retry of the first-contentful-paint lookup, 500 ms after construction.
OnFcpRetry(f, t) ==
  IF f.painted /\ f.metrics.coreWebVitals.firstContentfulPaint = <<>>
  THEN recordVital(f, "firstContentfulPaint", PaintEntry.startTime, t) ELSE f

\* The summary's own formatMs: one fractional digit below a second.
formatMsFrontend(ms) ==
  IF Lt(ms, 1000) THEN toFixed(ms, 1) \o " ms"
  ELSE toFixed(DivBy(ms, 1000), 2) \o " s"

VitalValue(vital) == IF vital = <<>> THEN 0 ELSE vital[1].value

VitalSummary(vital, limit) ==
  [value |-> formatMsFrontend(Num(VitalValue(vital))),
   status |-> IF VitalValue(vital) > limit THEN "Needs attention" ELSE "OK"]

summarizeFrontendMetrics(m) ==
  LET resourceDurations == [i \in 1..Len(m.loadedResources) |->
                              m.loadedResources[i].duration]
      taskDurations == [i \in 1..Len(m.slowTasks) |-> m.slowTasks[i].duration]
      errorsTotal == Len(m.javascriptErrors)
      vitals == m.coreWebVitals
  IN  [apiCalls |-> [total |-> Len(m.apiCalls)],
       resources |->
         [total |-> Len(resourceDurations),
          avgDuration |-> formatMsFrontend(avg(resourceDurations)),
          maxDuration |-> formatMsFrontend(Num(MaxSeq(Append(resourceDurations, 0)))),
          status |-> IF Gt(avg(resourceDurations), 200)
                     THEN "Resource loading is slow" ELSE "Resource loading OK"],
       slowTasks |->
         [total |-> Len(taskDurations),
          avgDuration |-> formatMsFrontend(avg(taskDurations)),
          maxDuration |-> formatMsFrontend(Num(MaxSeq(Append(taskDurations, 0)))),
          status |-> IF Gt(avg(taskDurations), 50)
                     THEN "Slow tasks detected" ELSE "Slow tasks OK"],
       errors |-> [total |-> errorsTotal,
                   status |-> IF errorsTotal > 0 THEN "Errors detected"
                              ELSE "No errors"],
       coreWebVitals |->
         [largestContentfulPaint |-> VitalSummary(vitals.largestContentfulPaint, 2500),
          firstContentfulPaint |-> VitalSummary(vitals.firstContentfulPaint, 1000),
          firstInputDelay |-> VitalSummary(vitals.firstInputDelay, 100),
          timeToFirstByte |-> VitalSummary(vitals.timeToFirstByte, 600)],
       pageLoad |->
         IF m.pageLoadTiming = <<>> THEN <<>>
         ELSE LET nav == m.pageLoadTiming[1]
                  load == nav.loadEventEnd - nav.startTime
              IN  <<[domContentLoaded |->
                       formatMsFrontend(Num(nav.domContentLoadedEventEnd - nav.startTime)),
                     loadTime |-> formatMsFrontend(Num(load)),
                     status |-> IF load > 3000 THEN "Page load is slow"
                                ELSE "Page load OK"]>>]

\* The copy getMetrics returns.  The spread copies the own enumerable
\* properties of the navigation entry, whose attributes are accessors of its
\* prototype: the copy of pageLoadTiming is an object with no property.
FrontendClone(m) ==
  [m EXCEPT !.pageLoadTiming = IF @ = <<>> THEN <<>> ELSE << <<>> >>]

FrontendResult(f) ==
  [metrics |-> FrontendClone(f.metrics), summary |-> summarizeFrontendMetrics(f.metrics)]

\* The listeners the collector adds to window: <<event, function>>.
CollectorWindowListeners ==
  {<<"load", "onLoad">>, <<"error", "handleError">>,
   <<"unhandledrejection", "onRejection">>}

\* observers.forEach(o => o.disconnect()), the two removeEventListener calls,
\* each naming handleError, and clearInterval(resetHandle).
dispose(f) ==
  [f EXCEPT !.observing = {},
            !.listening = @ \ {<<"error", "handleError">>,
                               <<"unhandledrejection", "handleError">>},
            !.timers = @ \ {"resetBatch"},
            !.disposed = TRUE]

\* The page after captureFrontendMetrics(opts) has returned: hasObserver says
\* whether the browser has PerformanceObserver, painted whether the first
\* contentful paint came before the call.
captureFrontendMetrics(batchSize, hasObserver, painted) ==
  LET f == [attached |-> TRUE,
            batchSize |-> batchSize,
            metrics |-> InitialFrontendMetrics,
            batchCount |-> 0,
            observing |-> IF hasObserver
                          THEN {"largest-contentful-paint", "first-input", "longtask"}
                          ELSE {},
            listening |-> CollectorWindowListeners,
            timers |-> IF painted THEN {"resetBatch"} ELSE {"resetBatch", "fcpRetry"},
            painted |-> painted,
            loaded |-> FALSE,
            disposed |-> FALSE,
            shifts |-> <<>>,
            turns |-> 0,
            returned |-> <<>>]
  IN  IF painted
      THEN recordVital(f, "firstContentfulPaint", PaintEntry.startTime, 0)
      ELSE f

InitFrontend ==
  /\ now = 0
  /\ heap = [a \in {LiveAddr} |-> InitialMetrics]
  /\ inflight = {}
  /\ nextId = 1
  /\ finished = <<>>
  /\ tagLog = <<>>
  /\ results = <<>>
  /\ streak = 0
  /\ histogram = EmptyHistogram
  /\ rendered = NoRendering
  /\ \E batchSize \in BatchSizes, hasObserver \in BOOLEAN, painted \in BOOLEAN :
       frontend = captureFrontendMetrics(batchSize, hasObserver, painted)

\* One browser event or timer firing that leaves the collector as f.
BrowserTurn(f) ==
  /\ frontend.turns < MaxBrowserEvents
  /\ frontend' = [f EXCEPT !.turns = @ + 1]
  /\ UNCHANGED <<now, heap, inflight, nextId, finished, tagLog, results, streak,
                 histogram, rendered>>

\* One call of the collector's caller that leaves the collector as f.
CallerTurn(f) ==
  /\ frontend' = f
  /\ UNCHANGED <<now, heap, inflight, nextId, finished, tagLog, results, streak,
                 histogram, rendered>>

LcpEntry(e) ==
  BrowserTurn(IF "largest-contentful-paint" \in frontend.observing
              THEN OnLcp(frontend, e, now) ELSE frontend)

FirstInputEntry(e) ==
  BrowserTurn(IF "first-input" \in frontend.observing
              THEN OnFirstInput(frontend, e, now) ELSE frontend)

LongTaskEntry(e) ==
  BrowserTurn(IF "longtask" \in frontend.observing
              THEN OnLongTask(frontend, e) ELSE frontend)

\* A layout shift in the page: the collector observes no such entries.
LayoutShiftEntry(e) ==
  BrowserTurn([frontend EXCEPT !.shifts = IF e.hadRecentInput THEN @
                                          ELSE Append(@, e.value)])

FirstContentfulPaint ==
  /\ ~frontend.painted
  /\ BrowserTurn([frontend EXCEPT !.painted = TRUE])

WindowLoad(nav, resources) ==
  /\ ~frontend.loaded
  /\ BrowserTurn([(IF <<"load", "onLoad">> \in frontend.listening
                   THEN OnLoad(frontend, nav, resources, now) ELSE frontend)
                    EXCEPT !.loaded = TRUE])

WindowError(e) ==
  BrowserTurn(IF <<"error", "handleError">> \in frontend.listening
              THEN OnError(frontend, e, now) ELSE frontend)

WindowRejection(reason) ==
  BrowserTurn(IF <<"unhandledrejection", "onRejection">> \in frontend.listening
              THEN OnRejection(frontend, reason, now) ELSE frontend)

FcpRetryTimer ==
  /\ "fcpRetry" \in frontend.timers
  /\ BrowserTurn([OnFcpRetry(frontend, now) EXCEPT !.timers = @ \ {"fcpRetry"}])

BatchResetTimer ==
  /\ "resetBatch" \in frontend.timers
  /\ BrowserTurn(clearBatch(frontend))

FrontendGetMetrics ==
  CallerTurn([frontend EXCEPT !.returned = <<FrontendResult(frontend)>>])

\* A flush that hands over the collected errors and slow tasks and starts
\* the next batch without them.
FrontendFlushDraining ==
  CallerTurn(clearBatch([frontend EXCEPT
                           !.returned = <<FrontendResult(frontend)>>,
                           !.metrics.javascriptErrors = <<>>,
                           !.metrics.slowTasks = <<>>]))

FrontendFlush ==
  CallerTurn(clearBatch([frontend EXCEPT !.returned = <<FrontendResult(frontend)>>]))

FrontendClearBatch == CallerTurn(clearBatch(frontend))

FrontendDispose ==
  /\ ~frontend.disposed
  /\ CallerTurn(dispose(frontend))

NextFrontend ==
  \/ \E e \in LcpEntries : LcpEntry(e)
  \/ \E e \in FirstInputEntries : FirstInputEntry(e)
  \/ \E e \in LongTaskEntries : LongTaskEntry(e)
  \/ \E e \in LayoutShiftEntries : LayoutShiftEntry(e)
  \/ FirstContentfulPaint
  \/ \E nav \in NavigationEntries, resources \in ResourceLists :
       WindowLoad(nav, resources)
  \/ \E e \in ErrorEvents : WindowError(e)
  \/ \E reason \in RejectionReasons : WindowRejection(reason)
  \/ FcpRetryTimer
  \/ BatchResetTimer
  \/ FrontendGetMetrics
  \/ FrontendFlush
  \/ FrontendClearBatch
  \/ FrontendDispose

SpecFrontend == InitFrontend /\ [][NextFrontend]_vars

\* ---------------------------------------------------------- capped buffers
\* A page that has been open for a while: the long-task observer has already
\* delivered close to 500 entries, and the page loads about 500 resources.
NumberedTask(i) == [name |-> "self", startTime |-> i, duration |-> 60]

NumberedResource(i, duration) ==
  [name |-> "a.js", entryType |-> "resource", startTime |-> i,
   duration |-> duration]

\* n resources that started one after the other and took n each, so that
\* the entries of one page load are not those of another.
NumberedResources(n) == [i \in 1..n |-> NumberedResource(i, n)]

BufferResourceLists ==
  {NumberedResources(n) : n \in (BufferCap - 1)..(BufferCap + 2)}

BufferTasks == {NumberedTask(BufferCap + 101), NumberedTask(BufferCap + 102)}

\* The collector after the long-task observer has delivered the tasks
\* first..last, one callback each.
RECURSIVE LongTasksObserved(_, _, _)
LongTasksObserved(f, first, last) ==
  IF first > last THEN f
  ELSE IF first = last THEN OnLongTask(f, NumberedTask(first))
  ELSE LET mid == (first + last) \div 2
           g == LongTasksObserved(f, first, mid)
       IN  IF g.attached THEN LongTasksObserved(g, mid + 1, last) ELSE g

InitBuffers ==
  /\ now = 0
  /\ heap = [a \in {LiveAddr} |-> InitialMetrics]
  /\ inflight = {}
  /\ nextId = 1
  /\ finished = <<>>
  /\ tagLog = <<>>
  /\ results = <<>>
  /\ streak = 0
  /\ histogram = EmptyHistogram
  /\ rendered = NoRendering
  /\ \E batchSize \in BatchSizes, painted \in BOOLEAN,
        n \in (BufferCap - 2)..BufferCap :
       frontend = LongTasksObserved(
                    captureFrontendMetrics(batchSize, TRUE, painted), 1, n)

NextBuffers ==
  \/ \E e \in BufferTasks : LongTaskEntry(e)
  \/ \E nav \in NavigationEntries, resources \in BufferResourceLists :
       WindowLoad(nav, resources)

SpecBuffers == InitBuffers /\ [][NextBuffers]_vars

\* --------------------------------------------------- earlier backend variant
\* captureBackendMetrics of src/core/backendMetrics.ts: no sampler run at
\* construction, no usage counters, and summarizeMetrics exposed on its own.
InitialMetricsEarlier ==
  [f \in DOMAIN InitialMetrics \ {"userMetrics"} |-> InitialMetrics[f]]

\* The rollup of this variant stores percentiles.get(p) as it comes.
RecordEventLoopSampleEarlier(m, h, t) ==
  [m EXCEPT !.eventLoopDelays =
     Append(@, [meanMs |-> h.mean, maxMs |-> h.max, minMs |-> h.min,
                p50Ms |-> h.p50, p99Ms |-> h.p99, timestamp |-> t])]

\* What the histogram reports at a rollup, with a mean above 50 among them.
EarlierReadings ==
  {[mean |-> 5, max |-> 9, min |-> 1, p50 |-> <<4>>, p99 |-> <<>>],
   [mean |-> 51, max |-> 70, min |-> 40, p50 |-> <<50>>, p99 |-> <<>>]}

\* os.cpus().length at the time of a summarizeMetrics call.
CoreCounts == {1, 2}

\* formatBytes of a value that may be undefined: every comparison with
\* undefined is false, so the GB branch renders NaN.toFixed(2).
formatBytesEarlier(bytes) ==
  IF bytes = <<>> THEN "NaN GB" ELSE formatBytes(bytes[1])

\* x.toFixed(digits) followed by "%", of a value that may be NaN.
PercentEarlier(x) == IF x = <<>> THEN "NaN%" ELSE toFixed(x[1], 1) \o "%"

\* summarizeMetrics of this variant.  Its HTTP, GC, handles and runtime-error
\* parts are those of the later one; the event-loop part destructures `mean`
\* and `max`, which no sample has (the samples hold meanMs and maxMs), so both
\* take their default 0; the process and OS parts fall back to
\* { memory: {}, cpu: {} } and { loadAvg: [], totalMemBytes: 1 }, whose
\* missing numbers are undefined (<<>> here, as is the NaN computed from them).
summarizeMetricsEarlier(m, cores) ==
  LET later == summarizeMetrics(
                 [f \in DOMAIN InitialMetrics |->
                    IF f = "userMetrics" THEN InitialMetrics.userMetrics ELSE m[f]])
      loopMean == 0
      loopMax == 0
      loopStatus == IF loopMean > 50 THEN "Event-loop lag" ELSE "Loop OK"
      hasProc == Len(m.processStats) # 0
      hasOs == Len(m.osStats) # 0
      memUsage == IF hasProc THEN <<Last(m.processStats).memory.rss>> ELSE <<>>
      cpuUser == IF hasProc THEN <<Last(m.processStats).cpu.user
                                    + Last(m.processStats).cpu.system>>
                 ELSE <<>>
      totalMem == IF hasOs THEN Last(m.osStats).totalMemBytes ELSE 1
      memPct == IF memUsage = <<>> THEN <<>>
                ELSE << <<memUsage[1] * 100, totalMem>> >>
      cpuPct == IF cpuUser = <<>> THEN <<>>
                ELSE << <<cpuUser[1] * 100, 1000000 * cores>> >>
      resourceStatus ==
        IF (memPct # <<>> /\ Gt(memPct[1], 80)) \/ (cpuPct # <<>> /\ Gt(cpuPct[1], 80))
        THEN "High resource use" ELSE "Resource use OK"
      loadAvg == IF hasOs THEN Last(m.osStats).loadAvg ELSE <<>>
      osStatus == IF hasOs /\ GtQ(loadAvg[1], Num(Last(m.osStats).cpuCores))
                  THEN "Load exceeds cores" ELSE "OS load OK"
  IN  [http |-> later.http,
       gc |-> later.gc,
       eventLoop |-> [meanDelay |-> formatMs(Num(loopMean)),
                      maxDelay |-> formatMs(Num(loopMax)), status |-> loopStatus],
       process |-> [memoryUsage |-> formatBytesEarlier(memUsage),
                    memoryPct |-> PercentEarlier(memPct),
                    cpuPct |-> PercentEarlier(cpuPct),
                    status |-> resourceStatus],
       os |-> [loadAvg |-> Join([j \in 1..Len(loadAvg) |-> toFixed(loadAvg[j], 2)], ", "),
               freeMem |-> formatBytesEarlier(
                             IF hasOs THEN <<Last(m.osStats).freeMemBytes>> ELSE <<>>),
               status |-> osStatus],
       handles |-> later.handles,
       errors |-> later.errors]

InitEarlier ==
  /\ now = 0
  /\ heap = [a \in {LiveAddr} |-> InitialMetricsEarlier]
  /\ inflight = {}
  /\ nextId = 1
  /\ finished = <<>>
  /\ tagLog = <<>>
  /\ results = <<>>
  /\ streak = 0
  /\ histogram = EmptyHistogram
  /\ frontend = NoFrontend
  /\ rendered = NoRendering

\* The rollup timer of this variant.
EarlierRollup(h) ==
  /\ Len(metrics.eventLoopDelays) < MaxRollups
  /\ heap' = [heap EXCEPT ![LiveAddr] = RecordEventLoopSampleEarlier(@, h, now)]
  /\ UNCHANGED <<now, inflight, nextId, finished, tagLog, results, streak,
                 histogram, frontend, rendered>>

\* The sampler timer of this variant: the same three pushes, first run after
\* one period.
EarlierSampler(r) ==
  /\ Len(metrics.processStats) < MaxRollups
  /\ heap' = [heap EXCEPT ![LiveAddr] = collectProcessAndOsStats(@, r, now)]
  /\ UNCHANGED <<now, inflight, nextId, finished, tagLog, results, streak,
                 histogram, frontend, rendered>>

\* A call of summarizeMetrics() on a host with `cores` cores.
EarlierSummarize(cores) ==
  /\ rendered' = [fn |-> "summarizeMetrics", input |-> cores,
                  text |-> <<summarizeMetricsEarlier(metrics, cores)>>]
  /\ UNCHANGED <<now, heap, inflight, nextId, finished, tagLog, results, streak,
                 histogram, frontend>>

NextEarlier ==
  \/ \E h \in EarlierReadings : EarlierRollup(h)
  \/ \E r \in HostReadings : EarlierSampler(r)
  \/ \E cores \in CoreCounts : EarlierSummarize(cores)

SpecEarlier == InitEarlier /\ [][NextEarlier]_vars

\* ------------------------------------------------------------ host process
\* process.on('uncaughtException', ...) and process.on('unhandledRejection',
\* ...): the collector adds one listener of each kind.
FaultKinds == {"uncaughtException", "unhandledRejection"}

CollectorListeners(kind) == 1

\* Listeners the host application has installed itself, of each kind.
HostListeners == [FaultKinds -> 0..MaxHostListeners]

WithCollector(own) == [kind \in FaultKinds |-> own[kind] + CollectorListeners(kind)]

\* What the runtime does with a fault, given the listeners installed.  An
\* uncaught exception with no listener ends the process with exit code 1; with
\* a listener, the listeners run and the process goes on.  A rejection nobody
\* handles goes to the 'unhandledRejection' listeners if there are any, and
\* is otherwise raised as an uncaught exception.
ProcessOutcome(kind, listeners) ==
  IF kind = "unhandledRejection" /\ listeners["unhandledRejection"] > 0
  THEN "continues"
  ELSE IF listeners["uncaughtException"] > 0 THEN "continues" ELSE "exits"

\* What the host's perf_hooks module and process object provide.
Hosts ==
  [performanceObserver : BOOLEAN, monitorEventLoopDelay : BOOLEAN,
   getActiveHandles : BOOLEAN]

\* The host reading r as seen on a host with or without handle introspection.
ReadingOn(host, r) ==
  [r EXCEPT !.handles = IF host.getActiveHandles THEN @ ELSE <<>>]

\* captureBackendMetrics on a host: new PerformanceObserver(...) and
\* monitorEventLoopDelay(...) are called unguarded, so a missing one raises a
\* TypeError out of the constructor; the handle count is read behind a typeof
\* test.
Construct(host, r) ==
  IF ~host.performanceObserver \/ ~host.monitorEventLoopDelay
  THEN [raised |-> TRUE, metrics |-> InitialMetrics]
  ELSE [raised |-> FALSE,
        metrics |-> collectProcessAndOsStats(InitialMetrics, ReadingOn(host, r), 0)]

\* ------------------------------------------------------- summarizer inputs
\* States for the summarizer's thresholds.  Each is produced by the recorders
\* above from what the event sources can deliver: request durations and
\* statuses, GC pauses, histogram readings and one host reading.
Replicate(n, x) == [i \in 1..n |-> x]

\* Requests as (durations, number of them that failed): none; 20 with a rate of
\* exactly 5% and an average of exactly 500; rates above 5%; averages at and
\* above 500.
SummaryHttpCases ==
  {[durations |-> <<>>, errors |-> 0],
   [durations |-> Replicate(20, 500), errors |-> 1],
   [durations |-> Replicate(20, 0), errors |-> 2],
   [durations |-> Replicate(19, 0), errors |-> 1],
   [durations |-> <<501>>, errors |-> 0],
   [durations |-> <<0, 1000>>, errors |-> 0],
   [durations |-> <<500, 501>>, errors |-> 0],
   [durations |-> <<0>>, errors |-> 1]}

\* GC pauses in the order observed.
SummaryGcCases == {<<>>, <<10, 20, 90>>, <<90, 90, 10>>, <<50>>, <<50, 51>>}

HistogramWithMean(mean) ==
  [mean |-> mean, max |-> mean + 10, min |-> 0, p50 |-> <<mean>>, p99 |-> <<mean + 10>>]

\* Histogram means of the rollups so far, oldest first.
SummaryLoopCases == {<<>>, <<50>>, <<51>>, <<51, 50>>, <<50, 51>>}

HostWith(rss, totalMem, cpuUser, cpuSystem, cores) ==
  [memory |-> [rss |-> rss, heapTotal |-> 1024, heapUsed |-> 512,
               external |-> 0, arrayBuffers |-> 0],
   cpu |-> [user |-> cpuUser, system |-> cpuSystem],
   loadAvg |-> <<<<1, 2>>, <<1, 4>>, <<0, 1>>>>,
   freeMemBytes |-> 0, totalMemBytes |-> totalMem, uptimeSec |-> <<3, 2>>,
   cpuCores |-> cores, handles |-> <<3>>]

\* Host readings at the thresholds: memory at 80%, at 80.5% and at 81%, CPU at
\* 80% and 81% on one and two cores, and hosts that report no total memory
\* or no cores (os.cpus() may be empty).
SummaryHostCases ==
  {HostWith(80, 100, 400000, 400000, 1),
   HostWith(81, 100, 0, 0, 1),
   HostWith(161, 200, 0, 0, 1),
   HostWith(10, 100, 810000, 0, 1),
   HostWith(10, 100, 1000000, 610000, 2),
   HostWith(10, 100, 1000000, 600000, 2),
   HostWith(10, 0, 900000, 0, 0)}

\* The finish callback run for each duration; the first `errors` requests
\* end with status 500, the others with 200.
RECURSIVE FinishEach(_, _, _)
FinishEach(m, durations, errors) ==
  IF durations = <<>> THEN m
  ELSE FinishEach(RecordFinish(m, Head(durations), IF errors > 0 THEN 500 ELSE 200),
                  Tail(durations), IF errors > 0 THEN errors - 1 ELSE 0)

\* The rollup timer run once per histogram mean.
RECURSIVE RollupEach(_, _)
RollupEach(m, means) ==
  IF means = <<>> THEN m
  ELSE RollupEach(RecordEventLoopSample(m, HistogramWithMean(Head(means)), 0),
                  Tail(means))

SummaryState(http, pauses, means, host) ==
  RollupEach(
    RecordGcEntries(
      FinishEach(collectProcessAndOsStats(InitialMetrics, host, 0),
                 http.durations, http.errors),
      [i \in 1..Len(pauses) |-> [kind |-> <<4>>, duration |-> pauses[i]]], 0),
    means)

InitSummary ==
  /\ now = 0
  /\ \E http \in SummaryHttpCases, pauses \in SummaryGcCases,
        means \in SummaryLoopCases, host \in SummaryHostCases :
       heap = [a \in {LiveAddr} |-> SummaryState(http, pauses, means, host)]
  /\ inflight = {}
  /\ nextId = 1
  /\ finished = <<>>
  /\ tagLog = <<>>
  /\ results = <<>>
  /\ streak = 0
  /\ histogram = EmptyHistogram
  /\ frontend = NoFrontend
  /\ rendered = NoRendering

\* A collector in one of the states above, read by getMetrics().
NextSummary ==
  \/ GetMetrics(<<>>, TRUE, 1)

SpecSummary == InitSummary /\ [][NextSummary]_vars

\* ------------------------------------------------------ cumulative CPU time
\* process.cpuUsage() reports the CPU time the process has used since it
\* started: a host with a fixed number of cores, on which each sampler run
\* reads at least the times the run before it read.
LatchReadings ==
  {HostWith(10, 100, user, system, cores) :
     user \in {0, 400000, 810000, 1700000}, system \in {0, 500000},
     cores \in {1, 2}}

\* CPU times of one interval: any reading may follow any other.
CpuOfInterval(before, cpu) == TRUE

CpuNeverDecreases(before, cpu) ==
  cpu.user >= before.user /\ cpu.system >= before.system

InitLatch ==
  /\ now = 0
  /\ \E r \in LatchReadings :
       heap = [a \in {LiveAddr} |-> collectProcessAndOsStats(InitialMetrics, r, 0)]
  /\ inflight = {}
  /\ nextId = 1
  /\ finished = <<>>
  /\ tagLog = <<>>
  /\ results = <<>>
  /\ streak = 0
  /\ histogram = EmptyHistogram
  /\ frontend = NoFrontend
  /\ rendered = NoRendering

LatchSampler(r) ==
  /\ Len(metrics.processStats) <= MaxRollups
  /\ CpuNeverDecreases(Last(metrics.processStats).cpu, r.cpu)
  /\ r.cpuCores = Last(metrics.osStats).cpuCores
  /\ SamplerTimer(r)

NextLatch ==
  \/ \E r \in LatchReadings : LatchSampler(r)
  \/ GetMetrics(<<>>, TRUE, 1)

SpecLatch == InitLatch /\ [][NextLatch]_vars

\* ------------------------------------------------------------------ claims
Count(S) == Cardinality(S)

Occurrences(log, x) == Count({i \in 1..Len(log) : log[i] = x})

\* The finish callback applied to a fresh state once per status, in order.
RECURSIVE FinishAll(_, _)
FinishAll(m, statuses) ==
  IF statuses = <<>> THEN m
  ELSE FinishAll(RecordFinish(m, 0, Head(statuses)), Tail(statuses))

\* C1: after any sequence of finished requests totalCount and the number of
\* recorded durations equal the number of finish events and errorCount equals
\* the number of them whose status is >= 400; the statuses 200, 200, 404, 500,
\* 200 give 5 and 2 and the error rate "40.0%".
C1_FinishCounts ==
  /\ metrics.httpRequests.totalCount = Len(finished)
  /\ Len(metrics.httpRequests.durationsMs) = Len(finished)
  /\ metrics.httpRequests.errorCount
       = Count({i \in 1..Len(finished) : finished[i].status >= 400})
  /\ LET m == FinishAll(InitialMetrics, <<200, 200, 404, 500, 200>>)
     IN  /\ m.httpRequests.totalCount = 5
         /\ m.httpRequests.errorCount = 2
         /\ summarizeMetrics(m).http.errorRate = "40.0%"

C1_Witness ==
  /\ Len(finished) = 2
  /\ finished[1].status = 400
  /\ finished[2].status = 200
  /\ metrics.httpRequests.errorCount = 1

\* C2: under every interleaving of the event sources and getMetrics,
\* errorCount <= totalCount and durationsMs holds totalCount durations.
C2_HttpAggregate ==
  /\ metrics.httpRequests.errorCount <= metrics.httpRequests.totalCount
  /\ Len(metrics.httpRequests.durationsMs) = metrics.httpRequests.totalCount

C2_Witness ==
  /\ metrics.httpRequests.errorCount = 1
  /\ metrics.httpRequests.totalCount = 1
  /\ results # <<>>
  /\ Events = MaxEvents

\* C3: the duration recorded for a request is its own finish time minus its
\* own start time, whatever other requests were in flight and whichever
\* finished first.
C3_OwnDuration ==
  /\ Len(metrics.httpRequests.durationsMs) = Len(finished)
  /\ \A i \in 1..Len(finished) :
       metrics.httpRequests.durationsMs[i] = finished[i].finish - finished[i].start

\* Two requests overlapped, the one that arrived later finished first, and
\* their durations differ.
C3_Witness ==
  /\ Len(finished) = 2
  /\ finished[1].id = 2
  /\ finished[2].id = 1
  /\ finished[1].start > finished[2].start
  /\ metrics.httpRequests.durationsMs = <<0, 1>>

\* The clone and the summary of the result the caller received last.
LastClone == heap[Last(results).metrics]

LastSummary == heap[Last(results).summary]

\* C4: every getMetrics("pageView") call adds exactly 1 to pageViews, so the
\* live counter equals the number of such calls; the metrics and the summary
\* a call returns already hold that number, and the usage status is
\* "User activity detected" once it is at least 1.
C4_PageViews ==
  LET k == Occurrences(tagLog, "pageView")
  IN  /\ metrics.userMetrics.pageViews = k
      /\ (streak >= 1 /\ results # <<>>) =>
           /\ LastClone.userMetrics.pageViews = k
           /\ LastSummary.userMetrics.pageViews = k
           /\ k >= 1 => LastSummary.userMetrics.status = "User activity detected"
           /\ k = 0 => LastSummary.userMetrics.status = "No user activity"

\* Three getMetrics("pageView") calls and no other event, then a result
\* reporting 3 page views.
C4_Witness ==
  /\ tagLog = <<"pageView", "pageView", "pageView">>
  /\ streak = 2
  /\ results # <<>>
  /\ LastClone.userMetrics.pageViews = 3
  /\ LastSummary.userMetrics.pageViews = 3
  /\ LastSummary.userMetrics.status = "User activity detected"

\* The tags of a log in the order of their first occurrence.
RECURSIVE FirstSeen(_)
FirstSeen(log) ==
  IF log = <<>> THEN <<>>
  ELSE LET front == FirstSeen(SubSeq(log, 1, Len(log) - 1))
       IN  IF \E i \in 1..Len(front) : front[i] = Last(log)
           THEN front ELSE Append(front, Last(log))

CustomTags == SelectSeq(tagLog, LAMBDA tag : tag # "pageView")

\* C5: for every non-empty tag other than "pageView", customEvents[tag] is the
\* number of getMetrics(tag) calls made, no other entry and not pageViews is
\* touched, and the summary lists the events in first-seen order.
C5_CustomEventCounts ==
  LET events == metrics.userMetrics.customEvents
  IN  /\ \A i \in 1..Len(CustomTags) :
           /\ HasOwn(events, CustomTags[i])
           /\ events[OwnIndex(events, CustomTags[i])].val.t = "number"
           /\ events[OwnIndex(events, CustomTags[i])].val.v
                = Occurrences(tagLog, CustomTags[i])
      /\ Len(events) = Len(FirstSeen(CustomTags))
      /\ metrics.userMetrics.pageViews = Occurrences(tagLog, "pageView")
      /\ [i \in 1..Len(events) |-> userEventsSummary(events)[i].event]
           = FirstSeen(CustomTags)

\* The live state with the custom-event entry of one key left out.
Without(m, k) ==
  [m EXCEPT !.userMetrics.customEvents =
     SelectSeq(@, LAMBDA entry : entry.key # k)]

\* What a getMetrics(event) call may change in the live state.
UsageEffect(event) ==
  IF ~Truthy(event) THEN metrics' = metrics
  ELSE IF event[1] = "pageView"
       THEN metrics' = [metrics EXCEPT !.userMetrics.pageViews = @ + 1]
       ELSE Without(metrics', event[1]) = Without(metrics, event[1])

\* C6: a getMetrics call changes nothing in the live state but the usage
\* counter its tag selects; with no tag or the empty tag the whole state,
\* raw numbers included, is what it was before the call.
C6_GetMetricsFrame ==
  [][\A event \in EventTags : GetMetrics(event, TRUE, 1) => UsageEffect(event)]_vars

\* A tagged call and a further call were made on a state that holds a raw
\* duration and raw samples; the state still holds the numbers and the result
\* holds the formatted text.
C6_Witness ==
  /\ tagLog = <<"click">>
  /\ streak = 2
  /\ metrics.httpRequests.durationsMs = <<0>>
  /\ results # <<>>
  /\ LastClone.httpRequests.durationsMs = <<"0.00 ms">>
  /\ metrics.userMetrics.customEvents = <<[key |-> "click", val |-> NumberVal(1)]>>

\* C7: a getMetrics() call without a tag that directly follows another
\* getMetrics call, no event source having run between them, returns a result
\* equal to that call's: equal metrics and equal summary.
C7_IdempotentRead ==
  [][(GetMetrics(<<>>, TRUE, 1) /\ streak >= 1 /\ results # <<>>) =>
       /\ heap'[Last(results').metrics] = LastClone
       /\ heap'[Last(results').summary] = LastSummary]_vars

\* Two untagged calls in a row, after the event sources took all their turns.
C7_Witness ==
  /\ streak = 2
  /\ tagLog = <<>>
  /\ Events = MaxEvents
  /\ metrics.httpRequests.totalCount = 1
  /\ results # <<>>
  /\ LastSummary.http.total = 1

\* No result shares an object with the live state or with another result.
NoSharing ==
  /\ LiveAddr \notin Held(results)
  /\ Held(results) \subseteq DOMAIN heap
  /\ Cardinality(Held(results)) = 2 * Len(results)

SameContent(result) ==
  /\ heap'[result.metrics] = heap[result.metrics]
  /\ heap'[result.summary] = heap[result.summary]

\* C8: a returned snapshot and the live state are independent.  Every turn of
\* an event source and every later getMetrics call leaves each snapshot the
\* caller still holds as it was; a caller overwriting a snapshot changes
\* neither the live state nor another snapshot; and a snapshot taken later is
\* the formatted clone and the summary of the live state alone.
C8_SnapshotIndependence ==
  [][/\ NoSharing'
     /\ \A i \in 1..Len(results) :
          IF CallerModifies(i)
          THEN metrics' = metrics
          ELSE (\E j \in 1..Len(results') : results'[j] = results[i])
                  => SameContent(results[i])
     /\ (streak' >= 1 /\ results' # <<>>) =>
          /\ heap'[Last(results').metrics] = FormatClone(JsonRoundTrip(metrics'))
          /\ heap'[Last(results').summary] = summarizeMetrics(metrics')]_vars

\* The caller holds a snapshot it has overwritten, and a fault recorded since
\* is in the live state and not in the snapshot.
C8_Witness ==
  /\ results # <<>>
  /\ heap[results[1].summary].http.total = -1
  /\ heap[results[1].metrics].httpRequests.totalCount = -1
  /\ metrics.httpRequests.totalCount = 0
  /\ metrics.errorCounts.uncaughtExceptions = 1
  /\ heap[results[1].metrics].errorCounts.uncaughtExceptions = 0
  /\ heap[results[1].summary].errors.uncaughtExceptions = 0

\* C9: the metrics and the summary of one result describe the same state:
\* the same request total (also the number of durations), error count, fault
\* counters and page views.
C9_ResultConsistent ==
  \A i \in 1..Len(results) :
    LET clone == heap[results[i].metrics]
        summary == heap[results[i].summary]
    IN  /\ summary.http.total = clone.httpRequests.totalCount
        /\ summary.http.total = Len(clone.httpRequests.durationsMs)
        /\ summary.http.errors = clone.httpRequests.errorCount
        /\ summary.errors.uncaughtExceptions = clone.errorCounts.uncaughtExceptions
        /\ summary.errors.unhandledRejections = clone.errorCounts.unhandledRejections
        /\ summary.userMetrics.pageViews = clone.userMetrics.pageViews

\* A result taken by getMetrics("pageView") after a failed request.
C9_Witness ==
  /\ results # <<>>
  /\ streak >= 1
  /\ tagLog = <<"pageView">>
  /\ LastSummary.http.total = 1
  /\ LastSummary.http.errors = 1
  /\ LastSummary.userMetrics.pageViews = 1
  /\ LastClone.userMetrics.pageViews = 1

\* C10: an uncaught exception adds exactly 1 to uncaughtExceptions and leaves
\* unhandledRejections alone, an unhandled rejection does the converse, no
\* other operation changes either counter, and neither ever decreases.
C10_FaultCounters ==
  [][LET faults == metrics.errorCounts
         after == metrics'.errorCounts
     IN  /\ UncaughtException =>
              /\ after.uncaughtExceptions = faults.uncaughtExceptions + 1
              /\ after.unhandledRejections = faults.unhandledRejections
         /\ UnhandledRejection =>
              /\ after.unhandledRejections = faults.unhandledRejections + 1
              /\ after.uncaughtExceptions = faults.uncaughtExceptions
         /\ ~(UncaughtException \/ UnhandledRejection) => after = faults
         /\ after.uncaughtExceptions >= faults.uncaughtExceptions
         /\ after.unhandledRejections >= faults.unhandledRejections]_vars

\* One fault of each kind, then a GC entry and a getMetrics call.
C10_Witness ==
  /\ metrics.errorCounts = [uncaughtExceptions |-> 1, unhandledRejections |-> 1]
  /\ Len(metrics.garbageCollections) = 1
  /\ streak >= 1
  /\ results # <<>>
  /\ LastSummary.errors.status = "Runtime errors detected"

\* C13: the HTTP status is "Needs attention" exactly when the error rate
\* (errorCount / totalCount x 100, 0 for no requests) is above 5 or the
\* average of all durations is above 500, and "OK" otherwise; a rate of
\* exactly 5% and an average of exactly 500 are "OK".
C13_HttpStatus ==
  results # <<>> =>
    LET h == metrics.httpRequests
        n == Len(h.durationsMs)
        rateAbove == h.totalCount > 0 /\ h.errorCount * 100 > 5 * h.totalCount
        avgAbove == n > 0 /\ SumSeq(h.durationsMs) > 500 * n
    IN  /\ LastSummary.http.status
             = IF rateAbove \/ avgAbove THEN "Needs attention" ELSE "OK"
        /\ h.totalCount = 0 => LastSummary.http.errorRate = "0.0%"
        /\ (h.totalCount > 0 /\ h.errorCount * 100 = 5 * h.totalCount
              /\ SumSeq(h.durationsMs) = 500 * n)
             => LastSummary.http.status = "OK"

\* 20 requests, one failed, every one taking 500 ms: both figures sit on
\* their thresholds.
C13_Witness ==
  /\ results # <<>>
  /\ metrics.httpRequests.totalCount = 20
  /\ metrics.httpRequests.errorCount = 1
  /\ LastSummary.http.errorRate = "5.0%"
  /\ LastSummary.http.avgDuration = "500.00 ms"
  /\ LastSummary.http.status = "OK"

\* C14: the GC summary averages the pauses of all GC events recorded since
\* initialization (0 when none); the status is "GC is slow" exactly when that
\* average is above 50 and "GC OK" otherwise; pauses 10, 20, 90 average 40 and
\* are "GC OK".
C14_GcStatus ==
  results # <<>> =>
    LET gcs == metrics.garbageCollections
        n == Len(gcs)
        total == SumSeq([i \in 1..n |-> gcs[i].durationMs])
    IN  /\ LastSummary.gc.status
             = IF n > 0 /\ total > 50 * n THEN "GC is slow" ELSE "GC OK"
        /\ LastSummary.gc.avgPause
             = IF n > 0 THEN formatMs(<<total, n>>) ELSE "0.00 ms"
        /\ [i \in 1..n |-> gcs[i].durationMs] = <<10, 20, 90>>
             => /\ LastSummary.gc.avgPause = "40.00 ms"
                /\ LastSummary.gc.status = "GC OK"

\* Pauses 10, 20, 90: the latest pause alone is above 50, the average is not.
C14_Witness ==
  /\ results # <<>>
  /\ Len(metrics.garbageCollections) = 3
  /\ metrics.garbageCollections[3].durationMs = 90
  /\ LastSummary.gc.avgPause = "40.00 ms"
  /\ LastSummary.gc.maxPause = "90.00 ms"
  /\ LastSummary.gc.status = "GC OK"

\* C15: the event-loop summary reports the mean and the max of the most
\* recent sample (0 when there is none); its status is "Event-loop lag"
\* exactly when that latest mean is above 50 and "Loop OK" otherwise.
C15_LoopStatus ==
  results # <<>> =>
    LET loops == metrics.eventLoopDelays
        n == Len(loops)
    IN  /\ LastSummary.eventLoop.meanDelay
             = IF n > 0 THEN formatMs(Num(loops[n].meanMs)) ELSE "0.00 ms"
        /\ LastSummary.eventLoop.maxDelay
             = IF n > 0 THEN formatMs(Num(loops[n].maxMs)) ELSE "0.00 ms"
        /\ LastSummary.eventLoop.status
             = IF n > 0 /\ loops[n].meanMs > 50 THEN "Event-loop lag" ELSE "Loop OK"

\* Two samples, the older with mean 51 and the latest with mean 50.
C15_Witness ==
  /\ results # <<>>
  /\ Len(metrics.eventLoopDelays) = 2
  /\ metrics.eventLoopDelays[1].meanMs = 51
  /\ LastSummary.eventLoop.meanDelay = "50.00 ms"
  /\ LastSummary.eventLoop.maxDelay = "60.00 ms"
  /\ LastSummary.eventLoop.status = "Loop OK"

\* C16: memory% is the last RSS / the last total host memory x 100 and cpu%
\* is the last cumulative user + system CPU / 1e6 / core count x 100, each 0
\* when its denominator is 0; the status is "High resource use" exactly when
\* either is above 80 and "Resource use OK" otherwise.
C16_ResourceStatus ==
  results # <<>> =>
    LET proc == metrics.processStats[Len(metrics.processStats)]
        host == metrics.osStats[Len(metrics.osStats)]
        rss == proc.memory.rss
        cpuTime == proc.cpu.user + proc.cpu.system
        memAbove == host.totalMemBytes # 0 /\ rss * 100 > 80 * host.totalMemBytes
        cpuAbove == host.cpuCores # 0 /\ cpuTime * 100 > 80 * 1000000 * host.cpuCores
    IN  /\ LastSummary.process.memoryPct
             = IF host.totalMemBytes # 0
               THEN toFixed(<<rss * 100, host.totalMemBytes>>, 1) \o "%" ELSE "0.0%"
        /\ LastSummary.process.cpuPct
             = IF host.cpuCores # 0
               THEN toFixed(<<cpuTime * 100, 1000000 * host.cpuCores>>, 1) \o "%"
               ELSE "0.0%"
        /\ LastSummary.process.status
             = IF memAbove \/ cpuAbove THEN "High resource use" ELSE "Resource use OK"
        /\ (rss = 80 /\ host.totalMemBytes = 100 /\ cpuTime = 800000 /\ host.cpuCores = 1)
             => /\ LastSummary.process.memoryPct = "80.0%"
                /\ LastSummary.process.cpuPct = "80.0%"
                /\ LastSummary.process.status = "Resource use OK"

\* A host that reports no total memory and no cores: both percentages are 0.
C16_Witness ==
  /\ results # <<>>
  /\ metrics.osStats[1].totalMemBytes = 0
  /\ metrics.osStats[1].cpuCores = 0
  /\ metrics.processStats[1].cpu.user = 900000
  /\ LastSummary.process.memoryPct = "0.0%"
  /\ LastSummary.process.cpuPct = "0.0%"
  /\ LastSummary.process.status = "Resource use OK"

FaultSum == metrics.errorCounts.uncaughtExceptions + metrics.errorCounts.unhandledRejections

\* The faults status of a result just returned is `unhealthy` exactly when a
\* fault has been counted, and a result that follows an unhealthy one is
\* unhealthy.
FaultStatusLaw(unhealthy, healthy) ==
  /\ (results' # <<>> /\ streak' >= 1) =>
       LastSummary'.errors.status = IF FaultSum' > 0 THEN unhealthy ELSE healthy
  /\ (results # <<>> /\ results' # <<>> /\ LastSummary.errors.status = unhealthy) =>
       LastSummary'.errors.status = unhealthy

\* C17: the faults status is "Runtime errors detected" exactly when
\* uncaughtExceptions + unhandledRejections > 0 and "No runtime errors"
\* otherwise; once it is the unhealthy one it is so in every later summary.
C17_FaultStatus ==
  [][FaultStatusLaw("Runtime errors detected", "No runtime errors")]_vars

\* C17 as stated, with the labels "Runtime faults detected" and
\* "No runtime faults".
C17_AsStated ==
  [][FaultStatusLaw("Runtime faults detected", "No runtime faults")]_vars

\* A fault of each kind was counted, another source ran, and the summary
\* returned after that is unhealthy.
C17_Witness ==
  /\ metrics.errorCounts = [uncaughtExceptions |-> 1, unhandledRejections |-> 1]
  /\ Len(metrics.processStats) = 2
  /\ streak >= 1
  /\ results # <<>>
  /\ LastSummary.errors.status = "Runtime errors detected"
  /\ LastSummary.errors.uncaughtExceptions = 1

\* C18: the usage status is "User activity detected" exactly when
\* pageViews > 0 and "No user activity" otherwise; calls with tags other than
\* "pageView", however many, leave it at "No user activity".
C18_UsageStatus ==
  (results # <<>> /\ streak >= 1) =>
    /\ LastSummary.userMetrics.status
         = IF metrics.userMetrics.pageViews > 0
           THEN "User activity detected" ELSE "No user activity"
    /\ Occurrences(tagLog, "pageView") = 0
         => LastSummary.userMetrics.status = "No user activity"

\* Three calls with custom tags, none with "pageView".
C18_Witness ==
  /\ Len(tagLog) = 3
  /\ Occurrences(tagLog, "pageView") = 0
  /\ Occurrences(tagLog, "click") = 2
  /\ results # <<>>
  /\ streak >= 1
  /\ Len(LastSummary.userMetrics.customEvents) = 2
  /\ LastSummary.userMetrics.status = "No user activity"

EmptyHttpSummary ==
  [total |-> 0, errors |-> 0, errorRate |-> "0.0%", avgDuration |-> "0.00 ms",
   status |-> "OK"]

EmptyGcSummary == [avgPause |-> "0.00 ms", maxPause |-> "0.00 ms", status |-> "GC OK"]

EmptyLoopSummary ==
  [meanDelay |-> "0.00 ms", maxDelay |-> "0.00 ms", status |-> "Loop OK"]

EmptyUsageSummary ==
  [activeUsers |-> 0, pageViews |-> 0, customEvents |-> <<>>,
   status |-> "No user activity"]

\* C19: summarizing the state in which every sequence is empty and every
\* counter is 0 (the state the collector is created with) gives zero figures
\* and the healthy label for every family; and in every summary a collector
\* returns, a family that has recorded nothing reads so.
C19_EmptySummary ==
  /\ summarizeMetrics(InitialMetrics)
       = [http |-> EmptyHttpSummary,
          gc |-> EmptyGcSummary,
          eventLoop |-> EmptyLoopSummary,
          process |-> [memoryUsage |-> "0 B", memoryPct |-> "0.0%",
                       cpuPct |-> "0.0%", status |-> "Resource use OK"],
          os |-> [loadAvg |-> "0.00", freeMem |-> "0 B", status |-> "OS load OK"],
          handles |-> [current |-> 0, status |-> "Handles OK"],
          errors |-> [uncaughtExceptions |-> 0, unhandledRejections |-> 0,
                      status |-> "No runtime errors"],
          userMetrics |-> EmptyUsageSummary]
  /\ (results # <<>> /\ streak >= 1) =>
       /\ metrics.httpRequests.totalCount = 0 => LastSummary.http = EmptyHttpSummary
       /\ metrics.garbageCollections = <<>> => LastSummary.gc = EmptyGcSummary
       /\ metrics.eventLoopDelays = <<>> => LastSummary.eventLoop = EmptyLoopSummary
       /\ FaultSum = 0 => LastSummary.errors.status = "No runtime errors"
       /\ tagLog = <<>> => LastSummary.userMetrics = EmptyUsageSummary

\* A collector read before any event source has delivered anything.
C19_Witness ==
  /\ Events = 0
  /\ results # <<>>
  /\ streak >= 1
  /\ LastSummary.http = EmptyHttpSummary
  /\ LastSummary.gc = EmptyGcSummary
  /\ LastSummary.eventLoop = EmptyLoopSummary
  /\ LastSummary.userMetrics = EmptyUsageSummary

OnlyLatest(s) == IF s = <<>> THEN <<>> ELSE <<s[Len(s)]>>

\* The state with every sample before the latest one forgotten.
EarlierDropped(m) ==
  [m EXCEPT !.eventLoopDelays = OnlyLatest(@), !.processStats = OnlyLatest(@),
            !.osStats = OnlyLatest(@), !.activeHandles = OnlyLatest(@)]

LatestRepeated(s) == [i \in 1..Len(s) |-> s[Len(s)]]

\* The state with every sample before the latest one replaced by the latest.
EarlierReplaced(m) ==
  [m EXCEPT !.eventLoopDelays = LatestRepeated(@), !.processStats = LatestRepeated(@),
            !.osStats = LatestRepeated(@), !.activeHandles = LatestRepeated(@)]

\* C20: the summary depends on eventLoopDelays, processStats, osStats and
\* activeHandles through their last elements only: states that differ only
\* in elements before the last have the same summary.
C20_LatestSampleOnly ==
  /\ summarizeMetrics(EarlierDropped(metrics)) = summarizeMetrics(metrics)
  /\ summarizeMetrics(EarlierReplaced(metrics)) = summarizeMetrics(metrics)

\* Two host samples and two event-loop samples, the older differing from the
\* latest, and a summary taken of them.
C20_Witness ==
  /\ Len(metrics.processStats) = 2
  /\ metrics.processStats[1].memory.rss # metrics.processStats[2].memory.rss
  /\ metrics.activeHandles[1].count # metrics.activeHandles[2].count
  /\ Len(metrics.eventLoopDelays) = 2
  /\ metrics.eventLoopDelays[1].meanMs # metrics.eventLoopDelays[2].meanMs
  /\ EarlierDropped(metrics) # metrics
  /\ results # <<>>
  /\ streak >= 1

\* C11: for an uncaught exception or an unhandled rejection the collector has
\* counted, the host process ends or goes on exactly as it would without the
\* collector attached, whatever listeners the host has of its own.
C11_HostOutcomeUnchanged ==
  \A kind \in FaultKinds, own \in HostListeners :
    (IF kind = "uncaughtException"
     THEN metrics.errorCounts.uncaughtExceptions > 0
     ELSE metrics.errorCounts.unhandledRejections > 0)
      => ProcessOutcome(kind, WithCollector(own)) = ProcessOutcome(kind, own)

\* C12: on a host without GC observation, without the event-loop delay
\* histogram or without handle introspection, captureBackendMetrics completes
\* without raising, the family concerned stays empty or zero and the others
\* are collected.
C12_DegradesSilently ==
  /\ \A host \in Hosts, r \in HostReadings :
       LET made == Construct(host, r)
       IN  /\ ~made.raised
           /\ made.metrics.garbageCollections = <<>>
           /\ made.metrics.eventLoopDelays = <<>>
           /\ Len(made.metrics.processStats) = 1
           /\ ~host.getActiveHandles => made.metrics.activeHandles[1].count = 0
  /\ \A i \in 1..Len(metrics.activeHandles) :
       /\ metrics.activeHandles[i].count >= 0
       /\ Len(metrics.processStats) = Len(metrics.activeHandles)

\* The three sequences the sampler writes have one length, at least 1.
SamplerLengths ==
  /\ Len(metrics.processStats) >= 1
  /\ Len(metrics.osStats) = Len(metrics.processStats)
  /\ Len(metrics.activeHandles) = Len(metrics.processStats)

\* C21: the sampler has run once by the end of initialization, and each run
\* appends exactly one process snapshot, one host snapshot and one handle
\* sample in one turn; so wherever a callback or getMetrics can see the
\* state, processStats, osStats and activeHandles have the same length, at
\* least 1, and only a sampler run changes it.
C21_SamplerTriples ==
  [][/\ SamplerLengths
     /\ SamplerLengths'
     /\ Len(metrics'.processStats)
          = IF \E r \in HostReadings : SamplerTimer(r)
            THEN Len(metrics.processStats) + 1
            ELSE Len(metrics.processStats)]_vars

\* The sampler has run at initialization and twice since, once on a host
\* that cannot list its handles.
C21_Witness ==
  /\ Len(metrics.processStats) = 3
  /\ Len(metrics.osStats) = 3
  /\ Len(metrics.activeHandles) = 3
  /\ metrics.activeHandles[3].count = 0
  /\ metrics.activeHandles[2].count = 3

\* C22: every rollup appends exactly one sample, computed from exactly the
\* delays observed since the previous rollup (the histogram holds those and no
\* others), and leaves the histogram empty; no other turn adds a sample.
C22_OneSamplePerWindow ==
  [][LET old == metrics.eventLoopDelays
         new == metrics'.eventLoopDelays
         window == histogram.sinceRollup
     IN  /\ histogram.recorded = window
         /\ new # old =>
              /\ new = Append(old, Last(new))
              /\ histogram'.recorded = <<>>
              /\ IF window = <<>>
                 THEN /\ Last(new).meanMs = NaN
                      /\ Last(new).maxMs = 0
                      /\ Last(new).p50Ms = 0
                      /\ Last(new).p99Ms = 0
                 ELSE /\ Last(new).meanMs = SumSeq(window) \div Len(window)
                      /\ Last(new).maxMs = MaxSeq(window)
                      /\ Last(new).minMs = MinSeq(window)
                      /\ Last(new).p50Ms \in {0} \cup Range(window)
                      /\ Last(new).p99Ms \in {0} \cup Range(window)
         /\ (\E p50, p99 \in {<<>>, <<3>>, <<9>>} :
               EventLoopTimer(HistogramReport(histogram.recorded, p50, p99)))
              => Len(new) = Len(old) + 1]_vars

\* Two rollups, the first over the delays 9 and 3, the second over the one
\* delay 3 observed after it.
C22_Witness ==
  /\ Len(metrics.eventLoopDelays) = 2
  /\ metrics.eventLoopDelays[1].maxMs = 9
  /\ metrics.eventLoopDelays[1].minMs = 3
  /\ metrics.eventLoopDelays[1].meanMs = 6
  /\ metrics.eventLoopDelays[2].maxMs = 3
  /\ metrics.eventLoopDelays[2].meanMs = 3
  /\ histogram.recorded = <<>>

\* C23: when the histogram has no value for the 50th or the 99th percentile
\* at a rollup, the sample recorded has p50Ms / p99Ms equal to 0, the rollup
\* records its sample, and no getMetrics call raises afterwards.
C23_MissingPercentiles ==
  [][/\ \A p50 \in PercentileReadings(histogram.recorded, 50),
           p99 \in PercentileReadings(histogram.recorded, 99) :
          EventLoopTimer(HistogramReport(histogram.recorded, p50, p99)) =>
            /\ Len(metrics'.eventLoopDelays) = Len(metrics.eventLoopDelays) + 1
            /\ p50 = <<>> => Last(metrics'.eventLoopDelays).p50Ms = 0
            /\ p99 = <<>> => Last(metrics'.eventLoopDelays).p99Ms = 0
     /\ streak' # -1]_vars

\* The requests that have entered the middleware, and those among them whose
\* response has emitted finish.
Entered == 1..(nextId - 1)

Completed == {finished[i].id : i \in 1..Len(finished)}

\* C24: a request whose response never emits finish is never recorded:
\* totalCount and the durations count the requests that emitted finish, one
\* each, and a connection that closes without finish leaves the metrics as
\* they were, so totalCount may stay below the number of requests that entered.
C24_UnfinishedUnrecorded ==
  [][/\ metrics'.httpRequests.totalCount = Cardinality(Completed')
     /\ Len(metrics'.httpRequests.durationsMs) = Cardinality(Completed')
     /\ Completed' \subseteq Entered'
     /\ metrics'.httpRequests.totalCount <= Cardinality(Entered')
     /\ Completed' = Completed => metrics'.httpRequests = metrics.httpRequests]_vars

\* Two requests entered, one finished and the other's connection closed:
\* nothing is in flight and one request is counted.
C24_Witness ==
  /\ Cardinality(Entered) = 2
  /\ inflight = {}
  /\ Cardinality(Completed) = 1
  /\ metrics.httpRequests.totalCount = 1

\* C25: each finish appends its duration at the end of durationsMs, so the
\* durations are in completion order: the i-th duration is that of the
\* request that was the i-th to finish, whatever the order of arrival.
C25_CompletionOrder ==
  [][/\ \A r \in inflight, status \in StatusCodes :
          RequestFinish(r, status) =>
            metrics'.httpRequests.durationsMs
              = Append(metrics.httpRequests.durationsMs, now - r.start)
     /\ \A i \in 1..Len(finished') :
          /\ metrics'.httpRequests.durationsMs[i]
               = finished'[i].finish - finished'[i].start
          /\ \A j \in 1..Len(finished') :
               i < j => finished'[i].finish <= finished'[j].finish]_vars

\* Request 1 arrived first and finished last: its duration is the second.
C25_Witness ==
  /\ Len(finished) = 2
  /\ finished[1].id = 2
  /\ finished[2].id = 1
  /\ finished[1].finish < finished[2].finish
  /\ metrics.httpRequests.durationsMs[1] < metrics.httpRequests.durationsMs[2]

IsPrefix(s, t) == Len(s) <= Len(t) /\ SubSeq(t, 1, Len(s)) = s

\* The six measurement sequences of a state.
Measurements(m) ==
  <<m.httpRequests.durationsMs, m.garbageCollections, m.eventLoopDelays,
    m.processStats, m.osStats, m.activeHandles>>

\* C26: every measurement sequence is append-only: each turn leaves what a
\* sequence held in place and at most adds entries at its end; a GC callback
\* adds one record for each entry it is handed, in order, with the entry's
\* kind as it came (missing where the entry carries none).
C26_AppendOnly ==
  [][/\ \A k \in 1..6 : IsPrefix(Measurements(metrics)[k], Measurements(metrics')[k])
     /\ \A entries \in GcBatches :
          GcCallback(entries) =>
            metrics'.garbageCollections
              = metrics.garbageCollections
                  \o [i \in 1..Len(entries) |->
                        [type |-> entries[i].kind,
                         durationMs |-> entries[i].duration,
                         timestamp |-> now]]]_vars

\* Three GC records from two callbacks, the first and the last without a kind.
C26_Witness ==
  /\ Len(metrics.garbageCollections) = 3
  /\ metrics.garbageCollections[1].type = <<>>
  /\ metrics.garbageCollections[2].type = <<4>>
  /\ metrics.garbageCollections[3].type = <<>>

\* The unit formatBytes is to choose for a byte count, and the bytes in one.
ByteUnit(b) ==
  IF b < 1024 THEN [name |-> "B", size |-> 1]
  ELSE IF b < 1024 * 1024 THEN [name |-> "KB", size |-> 1024]
  ELSE IF b < 1024 * 1024 * 1024 THEN [name |-> "MB", size |-> 1024 * 1024]
  ELSE [name |-> "GB", size |-> 1024 * 1024 * 1024]

\* C28: formatBytes renders whole bytes below 1024, KB below 1024^2, MB below
\* 1024^3 and GB from there on, with 2 fractional digits in all but whole
\* bytes, and the number it renders is below 1024 in the unit chosen; 0, 1023,
\* 1024, 1048576 and 1073741824 give "0 B", "1023 B", "1.00 KB", "1.00 MB" and
\* "1.00 GB".
C28_ByteUnits ==
  /\ (rendered.fn = "formatBytes" /\ rendered.text # <<>>) =>
       LET b == rendered.input
           unit == ByteUnit(b)
           hundredths == toFixedUnits(<<b, unit.size>>, 2)
       IN  /\ rendered.text[1]
                = (IF unit.name = "B" THEN ToString(b)
                   ELSE toFixed(<<b, unit.size>>, 2)) \o " " \o unit.name
           /\ hundredths < 1024 * 100
  /\ formatBytes(0) = "0 B"
  /\ formatBytes(1023) = "1023 B"
  /\ formatBytes(1024) = "1.00 KB"
  /\ formatBytes(1048576) = "1.00 MB"
  /\ formatBytes(1073741824) = "1.00 GB"

\* The text of h hundredths with exactly two fractional digits.
TwoDigits(h) ==
  ToString(h \div 100) \o "." \o ToString((h \div 10) % 10) \o ToString(h % 10)

\* The hundredths nearest to x >= 0, the larger on a tie.
NearestHundredths(x) ==
  LET whole == x[1] \div x[2]
      rest  == x[1] % x[2]
      close(k) == 2 * (IF 100 * rest >= k * x[2] THEN 100 * rest - k * x[2]
                       ELSE k * x[2] - 100 * rest) <= x[2]
  IN  100 * whole + CHOOSE k \in 0..100 :
                      close(k) /\ \A j \in 0..100 : close(j) => j <= k

\* C29: formatMs renders a duration below 1000 in milliseconds with the
\* suffix " ms" and one of 1000 or more divided by 1000 with the suffix " s",
\* each rounded to exactly 2 fractional digits; 999.4 gives "999.40 ms" and
\* 1000 gives "1.00 s".
C29_MsUnits ==
  /\ (rendered.fn = "formatMs" /\ rendered.text # <<>>) =>
       LET ms == rendered.input
       IN  rendered.text[1]
             = IF ms[1] < 1000 * ms[2]
               THEN TwoDigits(NearestHundredths(ms)) \o " ms"
               ELSE TwoDigits(NearestHundredths(<<ms[1], 1000 * ms[2]>>)) \o " s"
  /\ formatMs(<<4997, 5>>) = "999.40 ms"
  /\ formatMs(Num(1000)) = "1.00 s"

\* 1000 ms has been rendered, in seconds.
C29_Witness ==
  /\ rendered.fn = "formatMs"
  /\ rendered.input = Num(1000)
  /\ rendered.text = <<"1.00 s">>

\* C27: once dispose() has returned, no browser event and no timer firing
\* changes the collected metrics or the batch counter.
C27_DisposedIsInert ==
  [][(frontend.disposed /\ frontend'.turns # frontend.turns) =>
       /\ frontend'.metrics = frontend.metrics
       /\ frontend'.batchCount = frontend.batchCount]_vars

\* C30: once the browser has reported a layout shift without recent input,
\* the result of the next getMetrics() has coreWebVitals.cumulativeLayoutShift
\* defined, its value the sum of the shift values reported so far.
C30_CumulativeLayoutShift ==
  [][(FrontendGetMetrics /\ frontend.shifts # <<>>) =>
       LET vitals == frontend'.returned[1].metrics.coreWebVitals
       IN  /\ "cumulativeLayoutShift" \in DOMAIN vitals
           /\ vitals["cumulativeLayoutShift"] # <<>>
           /\ vitals["cumulativeLayoutShift"][1].value = SumSeq(frontend.shifts)]_vars

\* C31: in the earlier variant, summarizeMetrics reports the mean of the most
\* recent event-loop sample, and its status is "Event-loop lag" whenever that
\* sample's meanMs is above 50.
C31_EarlierLoopStatus ==
  [][(\E cores \in CoreCounts : EarlierSummarize(cores))
       /\ metrics.eventLoopDelays # <<>> =>
       LET last == Last(metrics.eventLoopDelays)
           loop == rendered'.text[1].eventLoop
       IN  /\ loop.meanDelay = formatMs(Num(last.meanMs))
           /\ last.meanMs > 50 => loop.status = "Event-loop lag"]_vars

\* C32: in the earlier variant, summarizeMetrics called while processStats and
\* osStats are empty returns, with memory usage, memory % and free memory
\* rendered from 0 and the labels "Resource use OK" and "OS load OK".
C32_EarlierEmptyStats ==
  [][(\E cores \in CoreCounts : EarlierSummarize(cores))
       /\ metrics.processStats = <<>> /\ metrics.osStats = <<>> =>
       LET summary == rendered'.text[1]
       IN  /\ summary.process.memoryUsage = "0 B"
           /\ summary.process.memoryPct = "0.0%"
           /\ summary.os.freeMem = "0 B"
           /\ summary.process.status = "Resource use OK"
           /\ summary.os.status = "OS load OK"]_vars

C36_FlushKeepsMetrics ==
  [][FrontendFlush =>
       /\ frontend'.returned = <<FrontendResult(frontend)>>
       /\ frontend'.batchCount = 0
       /\ frontend'.metrics = frontend.metrics
       /\ FrontendResult(frontend') = frontend'.returned[1]]_vars

\* Two errors were recorded, the counter is back at 0 with no batch size
\* and no timer turn, and the result returned holds the two errors.
C36_Witness ==
  /\ frontend.batchSize = <<>>
  /\ frontend.turns = 2
  /\ Len(frontend.metrics.javascriptErrors) = 2
  /\ frontend.batchCount = 0
  /\ frontend.returned # <<>>
  /\ frontend.returned[1].metrics.javascriptErrors = frontend.metrics.javascriptErrors
  /\ frontend.returned[1].summary.errors.total = 2

\* The i-th sample's cumulative CPU time is above 80% of a second per core.
CpuAbove(m, i) ==
  (m.processStats[i].cpu.user + m.processStats[i].cpu.system) * 100
    > 80 * 1000000 * m.osStats[i].cpuCores

\* The state as it was when the j-th sample had just been taken.
AsOfSample(m, j) ==
  [m EXCEPT !.processStats = SubSeq(@, 1, j), !.osStats = SubSeq(@, 1, j),
            !.activeHandles = SubSeq(@, 1, j)]

\* C35: with cumulative CPU times that never decrease and a constant core
\* count, the process status is latched: once a sample puts cpu% above 80,
\* the summary after that sample and after every later one reports "High
\* resource use".
C35_CpuLatch ==
  /\ \A i \in 1..Len(metrics.processStats) :
       \A j \in i..Len(metrics.processStats) :
         CpuAbove(metrics, i) =>
           summarizeMetrics(AsOfSample(metrics, j)).process.status
             = "High resource use"
  /\ (results # <<>> /\ streak >= 1
        /\ \E i \in 1..Len(metrics.processStats) : CpuAbove(metrics, i)) =>
       LastSummary.process.status = "High resource use"

\* The first sample is above 80%, two later samplers have run, the CPU time
\* has grown, and the summary just returned reports high resource use.
C35_Witness ==
  /\ Len(metrics.processStats) = 3
  /\ CpuAbove(metrics, 1)
  /\ metrics.processStats[3].cpu.user > metrics.processStats[1].cpu.user
  /\ results # <<>>
  /\ streak >= 1
  /\ LastSummary.process.status = "High resource use"
  /\ LastSummary.process.cpuPct = "170.0%"

\* The newest 500 entries of a sequence, in their order.
KeepNewest(seq) ==
  IF Len(seq) > BufferCap THEN SubSeq(seq, Len(seq) - BufferCap + 1, Len(seq))
  ELSE seq

\* C34: slowTasks and loadedResources hold at most 500 entries before and
\* after every callback; a callback that appends to a full buffer removes the
\* oldest entries and keeps the others in their order, so each buffer is the
\* newest 500 of what it held followed by what was appended.
C34_BuffersCapped ==
  [][LET old == frontend.metrics
         new == frontend'.metrics
     IN  /\ Len(old.slowTasks) <= BufferCap
         /\ Len(old.loadedResources) <= BufferCap
         /\ Len(new.slowTasks) <= BufferCap
         /\ Len(new.loadedResources) <= BufferCap
         /\ new.slowTasks # old.slowTasks =>
              /\ new.slowTasks # <<>>
              /\ new.slowTasks =
                   KeepNewest(Append(old.slowTasks, Last(new.slowTasks)))
              /\ Last(new.slowTasks) \in BufferTasks
         /\ new.loadedResources # old.loadedResources =>
              \E resources \in BufferResourceLists :
                new.loadedResources =
                  KeepNewest(old.loadedResources \o resources)]_vars

\* 500 long tasks had been recorded, one more arrived and pushed the first
\* one out; the page loaded 502 resources, of which the last 500 are held.
C34_Witness ==
  /\ frontend.attached
  /\ Len(frontend.metrics.slowTasks) = BufferCap
  /\ frontend.metrics.slowTasks[1] = NumberedTask(2)
  /\ frontend.metrics.slowTasks[BufferCap] = NumberedTask(BufferCap + 101)
  /\ Len(frontend.metrics.loadedResources) = BufferCap
  /\ frontend.metrics.loadedResources[1] = NumberedResource(3, BufferCap + 2)
  /\ frontend.metrics.loadedResources[BufferCap] =
       NumberedResource(BufferCap + 2, BufferCap + 2)

====
